---- MODULE Spec2Model ----
(***************************************************************************)
(* Model of scripts/code.py: the job scheduler (SQLite store, claim with   *)
(* stale-lease sweep, heartbeat, mark-done / mark-failed) and its HTTP     *)
(* handlers.                                                               *)
(*                                                                         *)
(* Store.  db is the committed content of the database (tables jobs,       *)
(* job_deps, events).  A connection that has executed a write statement    *)
(* and has not committed yet holds SQLite's single write lock: txn then    *)
(* holds its owner and its uncommitted view of the tables.  Other          *)
(* connections read db (WAL snapshot) and cannot write until the commit.   *)
(*                                                                         *)
(* Time.  clock counts ticks of TickMs milliseconds; time.time() is        *)
(* clock * TickMs.  All timestamps are in milliseconds.                    *)
(***************************************************************************)
EXTENDS Integers, Sequences, FiniteSets, Bags, TLC

VARIABLES db, txn, calls, exp, clock, artifacts, reply, cfg

vars == <<db, txn, calls, exp, clock, artifacts, reply, cfg>>

(***************************************************************************)
(* Program constants                                                       *)
(***************************************************************************)
LEASE_MS == 30000
MAX_ATTEMPTS == 3
VALID_PREFIXES ==
    { <<"@","f","i","l","e",":">>, <<"@","c","m","d",":">>, <<"@","u","r","l",":">>,
      <<"@","g","i","t",":">>, <<"@","g","h",":">>, <<"@","d","o","c",":">> }

(***************************************************************************)
(* Bounds of the model                                                     *)
(***************************************************************************)
TickMs == 30000
MaxTicks == 2

JobIds == {"a", "b", "c"}
Slots == {"w1", "w2", "w3"}

\* SQL NULL in a TEXT column, and in the REAL column lease_until.
NULL == "NULL"
NullTime == -1
\* an absent row of table jobs
NoJob == [absent |-> TRUE]
\* no open write transaction
NoTxn == [owner |-> "none"]
\* the lane argument of claim_ready when the query has no lane
NoLane == -1

Min(x, y) == IF x <= y THEN x ELSE y

time_time == clock * TickMs

(***************************************************************************)
(* validate_payload: payload.startswith(p) for some valid prefix p         *)
(***************************************************************************)
startswith(s, p) == Len(s) >= Len(p) /\ SubSeq(s, 1, Len(p)) = p

\* mutant: any payload that begins with "@" passes
validate_payload_AtSign(payload) == startswith(payload, <<"@">>)

validate_payload(payload) == \E p \in VALID_PREFIXES : startswith(payload, p)

(***************************************************************************)
(* Tables.  A value t = [jobs, deps, events] is one content of the store:  *)
(* t.jobs maps an id to its row or to NoJob, t.deps is the set of rows     *)
(* <<job_id, dep_id>> of job_deps (a primary key: a set), t.events is the  *)
(* bag of rows of events (the order of the log is not modelled).           *)
(***************************************************************************)
EmptyTables == [jobs |-> [j \in JobIds |-> NoJob], deps |-> {}, events |-> EmptyBag]

Exists(t, j) == t.jobs[j] # NoJob

\* log_event: INSERT INTO events.  cfg.log = FALSE leaves the log out of the
\* state (no operation of the scheduler reads it).
log_event(t, job_id, kind, msg) ==
    IF cfg.log
    THEN [t EXCEPT !.events = @ (+) SetToBag({[job_id |-> job_id, kind |-> kind, msg |-> msg]})]
    ELSE t

\* the row enqueue_job inserts (the other columns take the schema's defaults)
NewRow(lane, payload, dedupe_key, max_attempts, now) ==
    [lane |-> lane, payload |-> payload, status |-> "queued",
     holder |-> NULL, lease_until |-> NullTime,
     created_at |-> now, error |-> NULL,
     attempts |-> 0, max_attempts |-> max_attempts,
     dedupe_key |-> dedupe_key]

\* mutant: INSERT OR REPLACE instead of INSERT OR IGNORE
enqueue_job_Replace(t, job_id, lane, payload, dedupe_key, max_attempts) ==
    log_event([t EXCEPT !.jobs[job_id] =
                  NewRow(lane, payload, dedupe_key, max_attempts, time_time)],
              job_id, "enqueued", payload)

\* enqueue_job after validate_payload passed: INSERT OR IGNORE, then log.
enqueue_job(t, job_id, lane, payload, dedupe_key, max_attempts) ==
    LET now == time_time
        t1 == IF Exists(t, job_id)
              THEN t
              ELSE [t EXCEPT !.jobs[job_id] = NewRow(lane, payload, dedupe_key, max_attempts, now)]
    IN  log_event(t1, job_id, "enqueued", payload)

\* add_dep: INSERT OR IGNORE INTO job_deps
add_dep(t, job_id, dep_id) == [t EXCEPT !.deps = @ \cup {<<job_id, dep_id>>}]

RECURSIVE add_deps(_, _, _)
add_deps(t, job_id, deps) ==
    IF deps = <<>> THEN t
    ELSE add_deps(add_dep(t, job_id, Head(deps)), job_id, Tail(deps))

\* mutant: the sweep's query without status='running'
StaleIds_AnyStatus(t, now) ==
    { j \in JobIds : /\ Exists(t, j)
                     /\ t.jobs[j].lease_until # NullTime
                     /\ t.jobs[j].lease_until < now }

\* the rows the sweep selects: status='running' AND lease_until < now
\* (a NULL lease_until compares as unknown: the row is not selected)
StaleIds(t, now) ==
    { j \in JobIds : /\ Exists(t, j)
                     /\ t.jobs[j].status = "running"
                     /\ t.jobs[j].lease_until # NullTime
                     /\ t.jobs[j].lease_until < now }

\* mutant: the requeue branch also resets attempts
requeue_row_ResetAttempts(t, j, now) ==
    IF t.jobs[j].attempts < t.jobs[j].max_attempts
    THEN log_event([t EXCEPT !.jobs[j].status = "queued",
                             !.jobs[j].holder = NULL,
                             !.jobs[j].lease_until = NullTime,
                             !.jobs[j].attempts = 0],
                   j, "requeued", "stale lease")
    ELSE log_event([t EXCEPT !.jobs[j].status = "failed",
                             !.jobs[j].error = "max attempts exceeded"],
                   j, "failed", "max attempts exceeded")

\* mutant: the sweep's UPDATEs change no row; the events are still logged
requeue_row_LogOnly(t, j, now) ==
    IF t.jobs[j].attempts < t.jobs[j].max_attempts
    THEN log_event(t, j, "requeued", "stale lease")
    ELSE log_event(t, j, "failed", "max attempts exceeded")

\* one row of the sweep's loop
requeue_row(t, j, now) ==
    IF t.jobs[j].attempts < t.jobs[j].max_attempts
    THEN log_event([t EXCEPT !.jobs[j].status = "queued",
                             !.jobs[j].holder = NULL,
                             !.jobs[j].lease_until = NullTime],
                   j, "requeued", "stale lease")
    ELSE log_event([t EXCEPT !.jobs[j].status = "failed",
                             !.jobs[j].error = "max attempts exceeded"],
                   j, "failed", "max attempts exceeded")

RECURSIVE requeue_rows(_, _, _)
requeue_rows(t, stale, now) ==
    IF stale = {} THEN t
    ELSE LET j == CHOOSE x \in stale : TRUE
         IN  requeue_rows(requeue_row(t, j, now), stale \ {j}, now)

\* requeue_stale: the whole BEGIN IMMEDIATE .. COMMIT transaction.  The rows
\* are distinct and the updates touch one row each, so their order is
\* immaterial.
requeue_stale(t, now) == requeue_rows(t, StaleIds(t, now), now)

\* check_dedupe: a file with this stem exists in the artifact directory
check_dedupe(dedupe_key) ==
    IF dedupe_key = NULL THEN FALSE ELSE dedupe_key \in artifacts

(***************************************************************************)
(* claim_ready: the ready query and the two conditional updates            *)
(***************************************************************************)
\* mutant: the ready query without the lane clause
IsReady_AnyLane(t, j, lane) ==
    /\ Exists(t, j)
    /\ t.jobs[j].status = "queued"
    /\ ~ \E d \in JobIds : /\ <<j, d>> \in t.deps
                           /\ Exists(t, d)
                           /\ t.jobs[d].status # "done"

\* WHERE j.status='queued' [AND j.lane=?] AND NOT EXISTS (a dep edge joined
\* to a jobs row whose status is not 'done').  The JOIN drops an edge whose
\* dep_id has no row in jobs.
IsReady(t, j, lane) ==
    /\ Exists(t, j)
    /\ t.jobs[j].status = "queued"
    /\ (lane # NoLane => t.jobs[j].lane = lane)
    /\ ~ \E d \in JobIds : /\ <<j, d>> \in t.deps
                           /\ Exists(t, d)
                           /\ t.jobs[d].status # "done"

ReadyIds(t, lane) == { j \in JobIds : IsReady(t, j, lane) }

\* LIMIT ?: a negative limit is no limit in SQLite
Limit(batch, n) == IF batch < 0 THEN n ELSE Min(batch, n)

\* mutant: the ready query without ORDER BY j.created_at
ReadyOrders_Unordered(t, lane, batch) ==
    LET S == ReadyIds(t, lane)
        n == Limit(batch, Cardinality(S))
    IN  { s \in [1..n -> S] : \A i, k \in 1..n : i < k => s[i] # s[k] }

\* ORDER BY j.created_at LIMIT batch: every sequence of ids the query may
\* return (SQL leaves the order of rows with equal created_at open).
ReadyOrders(t, lane, batch) ==
    LET S == ReadyIds(t, lane)
        n == Limit(batch, Cardinality(S))
        at(j) == t.jobs[j].created_at
    IN  { s \in [1..n -> S] :
            /\ \A i, k \in 1..n : i < k => s[i] # s[k] /\ at(s[i]) <= at(s[k])
            /\ \A j \in S : (\A i \in 1..n : s[i] # j) =>
                              \A i \in 1..n : at(s[i]) <= at(j) }

\* the columns the query selects
ReadyRow(t, j) == [id |-> j, lane |-> t.jobs[j].lane, payload |-> t.jobs[j].payload,
                   dedupe_key |-> t.jobs[j].dedupe_key]

\* mutant: the dedupe UPDATE also counts an attempt
dedupe_skip_CountsAttempt(t, jid, holder) ==
    LET t1 == IF Exists(t, jid) /\ t.jobs[jid].status = "queued"
              THEN [t EXCEPT !.jobs[jid].status = "done",
                             !.jobs[jid].holder = holder,
                             !.jobs[jid].attempts = @ + 1]
              ELSE t
    IN  log_event(t1, jid, "dedupe_skip", t.jobs[jid].dedupe_key)

\* mutant: the dedupe UPDATE changes no row
dedupe_skip_LeavesQueued(t, jid, holder) ==
    log_event(t, jid, "dedupe_skip", t.jobs[jid].dedupe_key)

\* UPDATE jobs SET status='done', holder=? WHERE id=? AND status='queued',
\* then log_event (whatever the rowcount)
dedupe_skip(t, jid, holder) ==
    LET t1 == IF Exists(t, jid) /\ t.jobs[jid].status = "queued"
              THEN [t EXCEPT !.jobs[jid].status = "done",
                             !.jobs[jid].holder = holder]
              ELSE t
    IN  log_event(t1, jid, "dedupe_skip", t.jobs[jid].dedupe_key)

\* mutant: the claiming UPDATE without AND status='queued'
claim_rowcount_Unguarded(t, jid) == IF Exists(t, jid) THEN 1 ELSE 0

\* res.rowcount of the UPDATE .. WHERE id=? AND status='queued'
claim_rowcount(t, jid) ==
    IF Exists(t, jid) /\ t.jobs[jid].status = "queued" THEN 1 ELSE 0

\* mutant: the claiming UPDATE without attempts=attempts+1
claim_update_NoCount(t, jid, holder, lease_until) ==
    IF claim_rowcount(t, jid) > 0
    THEN log_event([t EXCEPT !.jobs[jid].status = "running",
                             !.jobs[jid].holder = holder,
                             !.jobs[jid].lease_until = lease_until],
                   jid, "claimed", holder)
    ELSE t

\* mutant: the claiming UPDATE without holder=?
claim_update_NoHolder(t, jid, holder, lease_until) ==
    IF claim_rowcount(t, jid) > 0
    THEN log_event([t EXCEPT !.jobs[jid].status = "running",
                             !.jobs[jid].lease_until = lease_until,
                             !.jobs[jid].attempts = @ + 1],
                   jid, "claimed", holder)
    ELSE t

\* UPDATE jobs SET status='running', holder=?, lease_until=?,
\* attempts=attempts+1 WHERE id=? AND status='queued'; log when a row changed
claim_update(t, jid, holder, lease_until) ==
    IF claim_rowcount(t, jid) > 0
    THEN log_event([t EXCEPT !.jobs[jid].status = "running",
                             !.jobs[jid].holder = holder,
                             !.jobs[jid].lease_until = lease_until,
                             !.jobs[jid].attempts = @ + 1],
                   jid, "claimed", holder)
    ELSE t

(***************************************************************************)
(* mark_done, mark_failed, heartbeat                                       *)
(***************************************************************************)
\* Python truth value of the holder argument: None and "" are false
Truthy(holder) == holder # NULL /\ holder # ""

\* mutant: the WHERE clause without AND holder=?
MarkGuard_NoHolder(t, job_id, holder) ==
    /\ Exists(t, job_id)
    /\ t.jobs[job_id].status = "running"

\* the WHERE clause of mark_done and mark_failed
MarkGuard(t, job_id, holder) ==
    /\ Exists(t, job_id)
    /\ t.jobs[job_id].status = "running"
    /\ (Truthy(holder) => t.jobs[job_id].holder = holder)

\* mutant: mark_done's UPDATE without AND status='running'
mark_done_AnyStatus(t, job_id, holder) ==
    LET t1 == IF Exists(t, job_id) /\ (Truthy(holder) => t.jobs[job_id].holder = holder)
              THEN [t EXCEPT !.jobs[job_id].status = "done"]
              ELSE t
    IN  log_event(t1, job_id, "done", "")

mark_done(t, job_id, holder) ==
    LET now == time_time
        t1 == IF MarkGuard(t, job_id, holder)
              THEN [t EXCEPT !.jobs[job_id].status = "done"]
              ELSE t
    IN  log_event(t1, job_id, "done", "")

\* mutant: mark_failed's UPDATE also counts an attempt
mark_failed_CountsAttempt(t, job_id, error, holder) ==
    LET t1 == IF MarkGuard(t, job_id, holder)
              THEN [t EXCEPT !.jobs[job_id].status = "failed",
                             !.jobs[job_id].error = error,
                             !.jobs[job_id].attempts = @ + 1]
              ELSE t
    IN  log_event(t1, job_id, "failed", error)

mark_failed(t, job_id, error, holder) ==
    LET now == time_time
        t1 == IF MarkGuard(t, job_id, holder)
              THEN [t EXCEPT !.jobs[job_id].status = "failed",
                             !.jobs[job_id].error = error]
              ELSE t
    IN  log_event(t1, job_id, "failed", error)

\* mutant: heartbeat's UPDATE without AND status='running'
heartbeat_ok_AnyStatus(t, job_id, holder) ==
    /\ Exists(t, job_id)
    /\ holder # NULL
    /\ t.jobs[job_id].holder = holder

\* res.rowcount > 0 of heartbeat's UPDATE .. WHERE id=? AND status='running'
\* AND holder=?  (holder = NULL is never true in SQL)
heartbeat_ok(t, job_id, holder) ==
    /\ Exists(t, job_id)
    /\ t.jobs[job_id].status = "running"
    /\ holder # NULL
    /\ t.jobs[job_id].holder = holder

\* mutant: heartbeat's UPDATE also sets created_at
heartbeat_Touches(t, job_id, holder) ==
    LET now == time_time
    IN  IF heartbeat_ok(t, job_id, holder)
        THEN [t EXCEPT !.jobs[job_id].lease_until = now + LEASE_MS,
                       !.jobs[job_id].created_at = now]
        ELSE t

heartbeat(t, job_id, holder) ==
    LET now == time_time
    IN  IF heartbeat_ok(t, job_id, holder)
        THEN [t EXCEPT !.jobs[job_id].lease_until = now + LEASE_MS]
        ELSE t

(***************************************************************************)
(* State                                                                   *)
(*   db        committed tables                                            *)
(*   txn       NoTxn, or the open write transaction [owner, db]            *)
(*   calls     per request slot, the claim_ready call in progress          *)
(*   exp       NoPlan, or the plan expand_plan is between its transactions *)
(*   clock     ticks elapsed                                               *)
(*   artifacts stems of the files present in the artifact directory        *)
(*   reply     the last HTTP response sent                                 *)
(*   cfg       the sets the requests' arguments are drawn from, and what  *)
(*             is recorded: log (table events), replies (reply), keep (a   *)
(*             slot keeps the list it returned and makes no further call)  *)
(***************************************************************************)
IdleCall == [pc |-> "idle", holder |-> NULL, lane |-> NoLane, batch |-> 0,
             now |-> 0, rows |-> <<>>, claimed |-> <<>>]

NoReply == [op |-> "none"]

\* the last request answered and its response: the path, the id and holder
\* of the request, the HTTP status, the "ok" field and the "jobs" field of the
\* body.  cfg.replies = FALSE leaves the responses out of the state.
Reply(op, id, holder, status, ok, jobs) ==
    IF cfg.replies
    THEN [op |-> op, id |-> id, holder |-> holder, status |-> status, ok |-> ok, jobs |-> jobs]
    ELSE NoReply

\* the tables as connection w sees them
View(w) == IF txn # NoTxn /\ txn.owner = w THEN txn.db ELSE db

\* the newest content of the tables, uncommitted writes included
Latest == IF txn # NoTxn THEN txn.db ELSE db

\* a write statement of connection w gets the write lock
CanWrite(w) == txn = NoTxn \/ txn.owner = w

(***************************************************************************)
(* POST /enqueue: one transaction; a bad payload is answered 400 before    *)
(* any statement runs.                                                     *)
(***************************************************************************)
Enqueue(job_id, lane, payload, deps, dedupe_key, max_attempts) ==
    /\ txn = NoTxn
    /\ IF validate_payload(payload)
       THEN /\ db' = add_deps(enqueue_job(db, job_id, lane, payload, dedupe_key, max_attempts),
                              job_id, deps)
            /\ reply' = Reply("enqueue", job_id, NULL, 200, TRUE, <<>>)
       ELSE /\ db' = db
            /\ reply' = Reply("enqueue", job_id, NULL, 400, FALSE, <<>>)
    /\ UNCHANGED <<txn, calls, clock, artifacts, cfg, exp>>

(***************************************************************************)
(* GET /ready: claim_ready, one action per statement that other            *)
(* connections can interleave with.                                        *)
(***************************************************************************)
\* mutant: the sweep restricted to the lane of the call
ClaimBegin_SweepOwnLane(w, holder, lane, batch) ==
    /\ calls[w].pc = "idle"
    /\ txn = NoTxn
    /\ db' = requeue_rows(db, { j \in StaleIds(db, time_time) :
                                   lane # NoLane => db.jobs[j].lane = lane }, time_time)
    /\ calls' = [calls EXCEPT ![w] = [IdleCall EXCEPT !.pc = "select", !.holder = holder,
                                         !.lane = lane, !.batch = batch, !.now = time_time]]
    /\ UNCHANGED <<txn, exp, clock, artifacts, reply, cfg>>

\* do_GET parses the query and calls claim_ready, which runs requeue_stale
\* (one BEGIN IMMEDIATE .. COMMIT transaction) and then reads the clock for
\* the lease it will grant.  The clock reads of lines 137 and 181 are taken
\* with the sweep's transaction.
ClaimBegin(w, holder, lane, batch) ==
    /\ calls[w].pc = "idle"
    /\ txn = NoTxn
    /\ db' = requeue_stale(db, time_time)
    /\ calls' = [calls EXCEPT ![w] = [IdleCall EXCEPT !.pc = "select", !.holder = holder,
                                         !.lane = lane, !.batch = batch, !.now = time_time]]
    /\ UNCHANGED <<txn, clock, artifacts, reply, cfg, exp>>

\* the ready query (read outside any transaction: the committed tables)
ClaimSelect(w) ==
    /\ calls[w].pc = "select"
    /\ \E s \in ReadyOrders(View(w), calls[w].lane, calls[w].batch) :
         calls' = [calls EXCEPT ![w].pc = "loop", ![w].lane = NoLane, ![w].batch = 0,
                                ![w].rows = [i \in 1..Len(s) |-> ReadyRow(View(w), s[i])]]
    /\ UNCHANGED <<db, txn, clock, artifacts, reply, cfg, exp>>

\* one iteration of the loop over rows
ClaimRow(w) ==
    /\ calls[w].pc = "loop"
    /\ calls[w].rows # <<>>
    /\ CanWrite(w)
    /\ LET c == calls[w]
           row == Head(c.rows)
           t == View(w)
       IN  IF check_dedupe(row.dedupe_key)
           THEN \* update, log, conn.commit(), continue
                /\ db' = dedupe_skip(t, row.id, c.holder)
                /\ txn' = NoTxn
                /\ calls' = [calls EXCEPT ![w].rows = Tail(c.rows)]
           ELSE /\ db' = db
                /\ txn' = [owner |-> w,
                           db |-> claim_update(t, row.id, c.holder, c.now + LEASE_MS)]
                /\ calls' = [calls EXCEPT ![w].rows = Tail(c.rows),
                                          ![w].claimed = IF claim_rowcount(t, row.id) > 0
                                                         THEN Append(c.claimed, row)
                                                         ELSE c.claimed]
    /\ UNCHANGED <<clock, artifacts, reply, cfg, exp>>

\* conn.commit(); return claimed; the handler sends {"jobs": claimed}
ClaimReturn(w) ==
    /\ calls[w].pc = "loop"
    /\ calls[w].rows = <<>>
    /\ db' = View(w)
    /\ txn' = IF txn # NoTxn /\ txn.owner = w THEN NoTxn ELSE txn
    /\ reply' = Reply("ready", NULL, calls[w].holder, 200, TRUE, calls[w].claimed)
    /\ calls' = [calls EXCEPT ![w] = IF cfg.keep
                                     THEN [IdleCall EXCEPT !.pc = "returned",
                                                           !.holder = calls[w].holder,
                                                           !.claimed = calls[w].claimed]
                                     ELSE IdleCall]
    /\ UNCHANGED <<clock, artifacts, cfg, exp>>

(***************************************************************************)
(* POST /done, /fail, /heartbeat: one transaction each                     *)
(***************************************************************************)
MarkDone(job_id, holder) ==
    /\ txn = NoTxn
    /\ db' = mark_done(db, job_id, holder)
    /\ reply' = Reply("done", job_id, holder, 200, TRUE, <<>>)
    /\ UNCHANGED <<txn, calls, clock, artifacts, cfg, exp>>

MarkFailed(job_id, error, holder) ==
    /\ txn = NoTxn
    /\ db' = mark_failed(db, job_id, error, holder)
    /\ reply' = Reply("fail", job_id, holder, 200, TRUE, <<>>)
    /\ UNCHANGED <<txn, calls, clock, artifacts, cfg, exp>>

\* mutant: a heartbeat that arrives after the lease has ended is refused
Heartbeat_Unexpired(job_id, holder) ==
    /\ txn = NoTxn
    /\ LET live == /\ heartbeat_ok(db, job_id, holder)
                   /\ db.jobs[job_id].lease_until >= time_time
       IN  /\ db' = IF live THEN heartbeat(db, job_id, holder) ELSE db
           /\ reply' = Reply("heartbeat", job_id, holder, 200, live, <<>>)
    /\ UNCHANGED <<txn, calls, clock, artifacts, cfg, exp>>

Heartbeat(job_id, holder) ==
    /\ txn = NoTxn
    /\ db' = heartbeat(db, job_id, holder)
    /\ reply' = Reply("heartbeat", job_id, holder, 200, heartbeat_ok(db, job_id, holder), <<>>)
    /\ UNCHANGED <<txn, calls, clock, artifacts, cfg, exp>>

(***************************************************************************)
(* POST /expand: expand_plan.  A plan is the result of parse_plan's        *)
(* reading of the file: [plan_id, accrue, orphans, steps], a step being    *)
(* [id, lane, payload, deps, dedupe_key] with deps a list of step ids.     *)
(* The jobs are inserted and committed in one transaction, the dep edges   *)
(* in a second one.                                                        *)
(***************************************************************************)
NoPlan == [plan_id |-> "none"]

\* f"{plan_id}::{step_id}": the job ids "a", "b", "c" stand for the global
\* ids "p::1", "p::2", "p::3" of the steps of plan p
global_id(plan_id, step_id) ==
    CASE step_id = "1" -> "a"
      [] step_id = "2" -> "b"
      [] OTHER -> "c"

\* mutant: the markers block compilation whatever the policy says
PlanRejected_IgnoresPolicy(plan) ==
    \/ plan.orphans > 0
    \/ plan.steps = <<>>

\* parse_plan raises when the policy is on and a TODO_ORPHAN: marker exists;
\* expand_plan raises when the plan has no steps
PlanRejected(plan) ==
    \/ plan.accrue /\ plan.orphans > 0
    \/ plan.steps = <<>>

RECURSIVE enqueue_steps(_, _, _)
enqueue_steps(t, plan_id, steps) ==
    IF steps = <<>> THEN t
    ELSE LET step == Head(steps)
         IN  enqueue_steps(enqueue_job(t, global_id(plan_id, step.id), step.lane,
                                       step.payload, step.dedupe_key, MAX_ATTEMPTS),
                           plan_id, Tail(steps))

\* id_map: the step ids the plan defines
StepIds(plan) == { plan.steps[i].id : i \in 1..Len(plan.steps) }

RECURSIVE add_step_deps(_, _, _)
add_step_deps(t, plan_id, steps) ==
    IF steps = <<>> THEN t
    ELSE LET step == Head(steps)
             gdeps == [i \in 1..Len(step.deps) |-> global_id(plan_id, step.deps[i])]
         IN  add_step_deps(add_deps(t, global_id(plan_id, step.id), gdeps),
                           plan_id, Tail(steps))

\* some step names a dep the plan does not define: the loop raises
UnknownDep(plan) ==
    \E i \in 1..Len(plan.steps) :
        \E k \in 1..Len(plan.steps[i].deps) : plan.steps[i].deps[k] \notin StepIds(plan)

\* parse, then the first transaction: enqueue_job for every step, commit.
\* A step with a bad payload raises before the commit: nothing is written.
ExpandJobs(plan) ==
    /\ exp = NoPlan
    /\ txn = NoTxn
    /\ IF PlanRejected(plan)
          \/ \E i \in 1..Len(plan.steps) : ~validate_payload(plan.steps[i].payload)
       THEN /\ db' = db
            /\ exp' = NoPlan
            /\ reply' = Reply("expand", plan.plan_id, NULL, 400, FALSE, <<>>)
       ELSE /\ db' = enqueue_steps(db, plan.plan_id, plan.steps)
            /\ exp' = plan
            /\ reply' = reply
    /\ UNCHANGED <<txn, calls, clock, artifacts, cfg>>

\* the second transaction: add_dep for every dep of every step, commit.  An
\* unknown dep raises before the commit: the edges are rolled back, the jobs
\* of the first transaction stay.
ExpandDeps ==
    /\ exp # NoPlan
    /\ txn = NoTxn
    /\ IF UnknownDep(exp)
       THEN /\ db' = db
            /\ reply' = Reply("expand", exp.plan_id, NULL, 400, FALSE, <<>>)
       ELSE /\ db' = add_step_deps(db, exp.plan_id, exp.steps)
            /\ reply' = Reply("expand", exp.plan_id, NULL, 200, TRUE, <<>>)
    /\ exp' = NoPlan
    /\ UNCHANGED <<txn, calls, clock, artifacts, cfg>>

(***************************************************************************)
(* Environment: time passes; a producer places an artifact file            *)
(***************************************************************************)
Tick ==
    /\ clock < MaxTicks
    /\ clock' = clock + 1
    /\ UNCHANGED <<db, txn, calls, artifacts, reply, cfg, exp>>

PlaceArtifact(key) ==
    /\ key \notin artifacts
    /\ artifacts' = artifacts \cup {key}
    /\ UNCHANGED <<db, txn, calls, clock, reply, cfg, exp>>

(***************************************************************************)
(* Requests, their arguments drawn from cfg                                *)
(***************************************************************************)
Payloads == { <<"@","c","m","d",":","x">>, <<"c","m","d",":","x">> }
GoodPayload == <<"@","c","m","d",":","x">>

InitWith(c) ==
    /\ db = EmptyTables
    /\ txn = NoTxn
    /\ calls = [w \in Slots |-> IdleCall]
    /\ exp = NoPlan
    /\ clock = 0
    /\ artifacts = {}
    /\ reply = NoReply
    /\ cfg = c

DoEnqueue ==
    \E job_id \in cfg.jobIds, lane \in cfg.lanes, payload \in cfg.payloads,
       deps \in cfg.depLists, dk \in cfg.dedupes, ma \in cfg.maxAttempts :
        Enqueue(job_id, lane, payload, deps, dk, ma)

DoClaimBegin ==
    \E w \in cfg.slots, lane \in cfg.laneArgs, batch \in cfg.batches :
        \E holder \in cfg.holders[w] : ClaimBegin(w, holder, lane, batch)

DoClaimSelect == \E w \in Slots : ClaimSelect(w)
DoClaimRow == \E w \in Slots : ClaimRow(w)
DoClaimReturn == \E w \in Slots : ClaimReturn(w)
DoMarkDone == \E job_id \in cfg.jobIds, holder \in cfg.holderArgs : MarkDone(job_id, holder)
DoMarkFailed ==
    \E job_id \in cfg.jobIds, error \in cfg.errors, holder \in cfg.holderArgs :
        MarkFailed(job_id, error, holder)
DoHeartbeat == \E job_id \in cfg.jobIds, holder \in cfg.holderArgs : Heartbeat(job_id, holder)
DoExpandJobs == \E plan \in cfg.plans : ExpandJobs(plan)
DoPlaceArtifact == \E key \in cfg.dedupes \ {NULL} : PlaceArtifact(key)

(***************************************************************************)
(* Spec: one job, two concurrent connections calling /ready, and every     *)
(* other request, in any interleaving, while leases expire.                *)
(***************************************************************************)
\* a plan of one step, "- [ ] id=1 lane=0 payload=@cmd:x"
Plan1 == [plan_id |-> "p", accrue |-> FALSE, orphans |-> 0,
          steps |-> << [id |-> "1", lane |-> 0, payload |-> GoodPayload,
                        deps |-> <<>>, dedupe_key |-> NULL] >>]

CoreCfg == [log |-> FALSE, replies |-> FALSE, keep |-> FALSE,
            jobIds |-> {"a"},
            slots |-> {"w1", "w2"},
            holders |-> [w \in Slots |-> IF w = "w1" THEN {"h1"} ELSE {"h1", "h2"}],
            holderArgs |-> {"h1", "h2", NULL, ""},
            lanes |-> {0},
            laneArgs |-> {NoLane},
            batches |-> {1},
            payloads |-> {GoodPayload},
            depLists |-> {<<>>},
            dedupes |-> {NULL, "k"},
            maxAttempts |-> {0, 1},
            errors |-> {"boom"},
            plans |-> {Plan1}]

Init == InitWith(CoreCfg)

Next ==
    \/ DoEnqueue
    \/ DoClaimBegin
    \/ DoClaimSelect
    \/ DoClaimRow
    \/ DoClaimReturn
    \/ DoMarkDone
    \/ DoMarkFailed
    \/ DoHeartbeat
    \/ DoExpandJobs
    \/ ExpandDeps
    \/ DoPlaceArtifact
    \/ Tick

Spec == Init /\ [][Next]_vars

(***************************************************************************)
(* Properties of Spec                                                      *)
(***************************************************************************)
Terminal == {"done", "failed"}

\* the step appends job j to the list call w will return
Gains(w, j) ==
    /\ calls'[w].pc = "loop"
    /\ Len(calls'[w].claimed) = Len(calls[w].claimed) + 1
    /\ calls'[w].claimed[Len(calls'[w].claimed)].id = j

\* C1: whenever a call adds a job to the list it returns, that very step is
\* a queued -> running transition of the job in the store, it records the
\* call's holder on the job, and no other call adds the job in that step.
C1_OneClaimerPerTransition ==
    [][ \A w \in Slots, j \in JobIds :
          Gains(w, j) =>
            /\ Latest.jobs[j].status = "queued"
            /\ Latest'.jobs[j].status = "running"
            /\ Latest'.jobs[j].holder = calls[w].holder
            /\ Latest'.jobs[j].attempts = Latest.jobs[j].attempts + 1
            /\ \A v \in Slots \ {w} : ~Gains(v, j) ]_vars

\* C1 witness: a call still holds a selected row of a job that another
\* holder's call has meanwhile claimed (the race the guard decides)
C1_Witness ==
    \E w \in Slots :
        /\ calls[w].pc = "loop"
        /\ calls[w].rows # <<>>
        /\ db.jobs[Head(calls[w].rows).id].status = "running"
        /\ db.jobs[Head(calls[w].rows).id].holder # calls[w].holder

\* C3: status = running iff holder and lease_until are both non-null
C3_RunningIffHolderAndLease ==
    \A j \in JobIds :
        Exists(db, j) =>
            ( db.jobs[j].status = "running"
              <=> (db.jobs[j].holder # NULL /\ db.jobs[j].lease_until # NullTime) )

\* C4: attempts <= max_attempts for every job
C4_AttemptsAtMostMax ==
    \A j \in JobIds : Exists(db, j) => db.jobs[j].attempts <= db.jobs[j].max_attempts

\* C5: a job whose status is done or failed keeps that status in every step
\* (committed and uncommitted content alike), and no call adds it to the list
\* it returns.
C5_TerminalIsFinal ==
    [][ \A j \in JobIds :
          /\ (Exists(db, j) /\ db.jobs[j].status \in Terminal)
                => db'.jobs[j].status = db.jobs[j].status
          /\ (Exists(Latest, j) /\ Latest.jobs[j].status \in Terminal)
                => /\ Latest'.jobs[j].status = Latest.jobs[j].status
                   /\ \A w \in Slots : ~Gains(w, j) ]_vars

\* C5 witness: a job failed by an explicit /fail, its lease since expired, and
\* a claim call whose sweep ran after the expiry
C5_Witness ==
    \E j \in JobIds, w \in Slots :
        /\ Exists(db, j)
        /\ db.jobs[j].status = "failed"
        /\ db.jobs[j].error = "boom"
        /\ calls[w].pc = "select"
        /\ db.jobs[j].lease_until # NullTime
        /\ db.jobs[j].lease_until < calls[w].now

(***************************************************************************)
(* SpecLease: one job in lane 0 or 1, one connection calling /ready for    *)
(* either holder with any lane filter, heartbeats, /done and /fail with    *)
(* any holder argument, leases expiring; the responses are recorded.       *)
(***************************************************************************)
LeaseCfg == [log |-> FALSE, replies |-> TRUE, keep |-> FALSE,
             jobIds |-> {"a"},
             slots |-> {"w1"},
             holders |-> [w \in Slots |-> {"h1", "h2"}],
             holderArgs |-> {"h1", "h2", NULL, ""},
             lanes |-> {0, 1},
             laneArgs |-> {NoLane, 0, 1},
             batches |-> {1},
             payloads |-> {GoodPayload},
             depLists |-> {<<>>},
             dedupes |-> {NULL},
             maxAttempts |-> {1, 2},
             errors |-> {"boom"},
             plans |-> {}]

InitLease == InitWith(LeaseCfg)

NextLease ==
    \/ DoEnqueue
    \/ DoClaimBegin
    \/ DoClaimSelect
    \/ DoClaimRow
    \/ DoClaimReturn
    \/ DoMarkDone
    \/ DoMarkFailed
    \/ DoHeartbeat
    \/ Tick

SpecLease == InitLease /\ [][NextLease]_vars

\* the store records status=running and holder=h for job j
RunningUnder(t, j, h) ==
    Exists(t, j) /\ t.jobs[j].status = "running" /\ t.jobs[j].holder = h

\* C8: a heartbeat(j, h) answers ok=true iff the store records running and
\* holder h for j; then it sets lease_until to call time + LEASE_MS and leaves
\* every other modelled column, row and table as it was; otherwise it leaves
\* the store unchanged.
C8_HeartbeatIffOwner ==
    [][ \A j \in JobIds, h \in LeaseCfg.holderArgs :
          Heartbeat(j, h) =>
            /\ reply'.ok = RunningUnder(db, j, h)
            /\ RunningUnder(db, j, h) =>
                 db' = [db EXCEPT !.jobs[j].lease_until = time_time + LEASE_MS]
            /\ ~RunningUnder(db, j, h) => db' = db ]_vars

\* C8 witness: a heartbeat was just answered ok, one tick or more after the
\* claim, and the lease now ends LEASE_MS after the present
C8_Witness ==
    /\ reply.op = "heartbeat"
    /\ reply.ok
    /\ clock >= 1
    /\ db.jobs[reply.id].status = "running"
    /\ db.jobs[reply.id].lease_until = time_time + LEASE_MS

C10_SweepClearsStale ==
    [][ \A w \in Slots :
          (calls[w].pc = "idle" /\ calls'[w].pc # "idle") =>
            \A j \in JobIds :
              /\ ~( /\ Exists(db', j)
                    /\ db'.jobs[j].status = "running"
                    /\ db'.jobs[j].lease_until # NullTime
                    /\ db'.jobs[j].lease_until < calls'[w].now )
              /\ j \in StaleIds(db, calls'[w].now) =>
                   db'.jobs[j].status \in {"queued", "failed"} ]_vars

\* C10 witness: a call filtering on lane 1 has just swept, and the job of
\* lane 0, whose lease had expired, is failed with the sweep's error
C10_Witness ==
    \E w \in Slots, j \in JobIds :
        /\ calls[w].pc = "select"
        /\ calls[w].lane = 1
        /\ Exists(db, j)
        /\ db.jobs[j].lane = 0
        /\ db.jobs[j].status = "failed"
        /\ db.jobs[j].error = "max attempts exceeded"
        /\ db.jobs[j].lease_until < calls[w].now

(***************************************************************************)
(* SpecDeps: two jobs with dependency edges between them (and on           *)
(* themselves), enqueued in any order and again, one connection calling    *)
(* /ready with batch 1 or 2, /done and /fail.                              *)
(***************************************************************************)
DepsCfg == [log |-> FALSE, replies |-> FALSE, keep |-> FALSE,
            jobIds |-> {"a", "b"},
            slots |-> {"w1"},
            holders |-> [w \in Slots |-> {"h1"}],
            holderArgs |-> {"h1"},
            lanes |-> {0},
            laneArgs |-> {NoLane},
            batches |-> {1, 2},
            payloads |-> {GoodPayload},
            depLists |-> {<<>>, <<"a">>, <<"b">>},
            dedupes |-> {NULL},
            maxAttempts |-> {1},
            errors |-> {"boom"},
            plans |-> {}]

InitDeps == InitWith(DepsCfg)

NextDeps ==
    \/ DoEnqueue
    \/ DoClaimBegin
    \/ DoClaimSelect
    \/ DoClaimRow
    \/ DoClaimReturn
    \/ DoMarkDone
    \/ DoMarkFailed
    \/ Tick

SpecDeps == InitDeps /\ [][NextDeps]_vars

\* C2: every job the ready query selects is queued and every one of its
\* recorded dep edges points to a job whose status is done; and no job is
\* added to a returned list while it has a dep that is queued, running or
\* failed.
C2_ReturnedOnlyWhenDepsDone ==
    [][ \A w \in Slots :
          /\ (calls[w].pc = "select" /\ calls'[w].pc = "loop") =>
               \A i \in 1..Len(calls'[w].rows) :
                 LET j == calls'[w].rows[i].id
                 IN  /\ db.jobs[j].status = "queued"
                     /\ \A d \in JobIds :
                          <<j, d>> \in db.deps => Exists(db, d) /\ db.jobs[d].status = "done"
          /\ \A j \in JobIds :
               Gains(w, j) =>
                 \A d \in JobIds :
                   (<<j, d>> \in Latest.deps /\ Exists(Latest, d))
                      => Latest.jobs[d].status = "done" ]_vars

(***************************************************************************)
(* SpecRace: M jobs (1..3) are ready, enqueued at tick 0 or 1 with no deps *)
(* and no dedupe key; N connections (1..3), each for its own holder, call  *)
(* /ready?batch=1 once, concurrently: all the calls run within one lease   *)
(* window.  A slot keeps the list its call returned.                       *)
(***************************************************************************)
\* most workers and most ready jobs in a race
MaxRace == 3

RaceSlots(n) == CASE n = 1 -> {"w1"} [] n = 2 -> {"w1", "w2"} [] OTHER -> Slots
RaceJobs(m) == CASE m = 1 -> {"a"} [] m = 2 -> {"a", "b"} [] OTHER -> JobIds

RaceCfg(n, m) ==
    [log |-> FALSE, replies |-> FALSE, keep |-> TRUE,
     jobIds |-> RaceJobs(m),
     slots |-> RaceSlots(n),
     holders |-> [w \in Slots |-> CASE w = "w1" -> {"h1"} [] w = "w2" -> {"h2"} [] OTHER -> {"h3"}],
     holderArgs |-> {},
     lanes |-> {0},
     laneArgs |-> {NoLane},
     batches |-> {1},
     payloads |-> {GoodPayload},
     depLists |-> {<<>>},
     dedupes |-> {NULL},
     maxAttempts |-> {MAX_ATTEMPTS},
     errors |-> {},
     plans |-> {}]

InitRace ==
    /\ \E n \in 1..MaxRace, m \in 1..MaxRace : cfg = RaceCfg(n, m)
    /\ clock = 1
    /\ \E at \in [cfg.jobIds -> {0, TickMs}] :
         db = [EmptyTables EXCEPT !.jobs =
                 [j \in JobIds |-> IF j \in cfg.jobIds
                                   THEN NewRow(0, GoodPayload, NULL, MAX_ATTEMPTS, at[j])
                                   ELSE NoJob]]
    /\ txn = NoTxn
    /\ calls = [w \in Slots |-> IdleCall]
    /\ exp = NoPlan
    /\ artifacts = {}
    /\ reply = NoReply

\* time passes during the race, short of the end of the first lease granted
RaceTick == Tick /\ clock * TickMs <= LEASE_MS

NextRace ==
    \/ DoClaimBegin
    \/ DoClaimSelect
    \/ DoClaimRow
    \/ DoClaimReturn
    \/ RaceTick

SpecRace == InitRace /\ [][NextRace]_vars

AllReturned == \A w \in cfg.slots : calls[w].pc = "returned"
Winners == { w \in cfg.slots : calls[w].claimed # <<>> }
ReturnedTo(j) == { w \in cfg.slots : \E i \in 1..Len(calls[w].claimed) : calls[w].claimed[i].id = j }
RaceN == Cardinality(cfg.slots)
RaceM == Cardinality(cfg.jobIds)

\* C6 as stated: when all N calls have returned, exactly min(N, M) of them
\* returned a job, and each job was returned to at most one of them
C6_ExactlyMinSucceed ==
    AllReturned =>
        /\ Cardinality(Winners) = Min(RaceN, RaceM)
        /\ \A j \in JobIds : Cardinality(ReturnedTo(j)) <= 1

\* C7: one ready job, two concurrent calls: once both have returned, one of
\* them returned the list [J] and the other the empty list
C7_OneWinnerOneEmpty ==
    (AllReturned /\ RaceN = 2 /\ RaceM = 1) =>
        \E w \in cfg.slots :
            /\ Len(calls[w].claimed) = 1
            /\ calls[w].claimed[1].id = "a"
            /\ \A v \in cfg.slots \ {w} : calls[v].claimed = <<>>

\* C7 witness: both calls have returned and the second one won the job
C7_Witness ==
    /\ AllReturned
    /\ RaceN = 2
    /\ RaceM = 1
    /\ calls["w1"].claimed = <<>>
    /\ Len(calls["w2"].claimed) = 1
    /\ db.jobs["a"].holder = "h2"

(***************************************************************************)
(* SpecSweep: two jobs with max_attempts 1 or 2, one connection calling    *)
(* /ready with batch 1 or 2, /done, leases expiring; the event log is      *)
(* recorded.  Requests that only append to the log are taken while the log *)
(* holds fewer than MaxEvents rows.                                        *)
(***************************************************************************)
MaxEvents == 3

LogRoom == BagCardinality(db.events) < MaxEvents

SweepCfg == [log |-> TRUE, replies |-> FALSE, keep |-> FALSE,
             jobIds |-> {"a", "b"},
             slots |-> {"w1"},
             holders |-> [w \in Slots |-> {"h1"}],
             holderArgs |-> {"h1"},
             lanes |-> {0},
             laneArgs |-> {NoLane},
             batches |-> {1, 2},
             payloads |-> {GoodPayload},
             depLists |-> {<<>>},
             dedupes |-> {NULL},
             maxAttempts |-> {1, 2},
             errors |-> {},
             plans |-> {}]

InitSweep == InitWith(SweepCfg)

LoggedEnqueue == LogRoom /\ DoEnqueue
LoggedMarkDone == LogRoom /\ DoMarkDone

NextSweep ==
    \/ LoggedEnqueue
    \/ DoClaimBegin
    \/ DoClaimSelect
    \/ DoClaimRow
    \/ DoClaimReturn
    \/ LoggedMarkDone
    \/ Tick

SpecSweep == InitSweep /\ [][NextSweep]_vars

\* the number of rows (job_id, kind, msg) in table events
EventCount(t, job_id, kind, msg) ==
    CopiesIn([job_id |-> job_id, kind |-> kind, msg |-> msg], t.events)

\* the events of job j are the same in t and u
SameEvents(t, u, j) ==
    \A e \in BagToSet(t.events) \cup BagToSet(u.events) :
        e.job_id = j => CopiesIn(e, t.events) = CopiesIn(e, u.events)

\* job j is running with a lease that ended before time T
Expired(t, j, T) ==
    /\ Exists(t, j)
    /\ t.jobs[j].status = "running"
    /\ t.jobs[j].lease_until # NullTime
    /\ t.jobs[j].lease_until < T

\* C11: the sweep of a claim call at time T requeues every running job with
\* lease_until < T and attempts < max_attempts (status queued, holder and
\* lease_until cleared, attempts kept, one `requeued` event), fails every
\* other such job (status failed, error "max attempts exceeded", attempts
\* kept, one `failed` event), and leaves every other job and its events as
\* they were.
C11_SweepRequeuesOrFails ==
    [][ \A w \in Slots :
          (calls[w].pc = "idle" /\ calls'[w].pc = "select") =>
            \A j \in JobIds :
              LET T == calls'[w].now
                  r == db.jobs[j]
              IN  /\ (Expired(db, j, T) /\ r.attempts < r.max_attempts) =>
                        /\ db'.jobs[j] = [r EXCEPT !.status = "queued", !.holder = NULL,
                                                    !.lease_until = NullTime]
                        /\ db'.jobs[j].attempts = r.attempts
                        /\ EventCount(db', j, "requeued", "stale lease")
                             = EventCount(db, j, "requeued", "stale lease") + 1
                        /\ EventCount(db', j, "failed", "max attempts exceeded")
                             = EventCount(db, j, "failed", "max attempts exceeded")
                  /\ (Expired(db, j, T) /\ r.attempts >= r.max_attempts) =>
                        /\ db'.jobs[j].status = "failed"
                        /\ db'.jobs[j].error = "max attempts exceeded"
                        /\ db'.jobs[j].attempts = r.attempts
                        /\ EventCount(db', j, "failed", "max attempts exceeded")
                             = EventCount(db, j, "failed", "max attempts exceeded") + 1
                        /\ EventCount(db', j, "requeued", "stale lease")
                             = EventCount(db, j, "requeued", "stale lease")
                  /\ ~Expired(db, j, T) =>
                        /\ db'.jobs[j] = r
                        /\ SameEvents(db, db', j) ]_vars

\* C11 witness: one sweep has just failed job a at its cap (1 of 1) and
\* requeued job b below its cap (1 of 2), each with its event
C11_Witness ==
    \E w \in Slots :
        /\ calls[w].pc = "select"
        /\ Exists(db, "a") /\ Exists(db, "b")
        /\ db.jobs["a"].status = "failed"
        /\ db.jobs["a"].error = "max attempts exceeded"
        /\ db.jobs["a"].attempts = 1
        /\ db.jobs["b"].status = "queued"
        /\ db.jobs["b"].attempts = 1
        /\ db.jobs["b"].max_attempts = 2
        /\ EventCount(db, "a", "failed", "max attempts exceeded") = 1
        /\ EventCount(db, "b", "requeued", "stale lease") = 1

(***************************************************************************)
(* SpecRetry: one job with max_attempts 1, 2 or 3 whose claimers die: the  *)
(* only requests are /enqueue and /ready (for either holder), while up to  *)
(* MaxRetryTicks ticks pass; no /done, /fail or /heartbeat is sent.  The   *)
(* event log is recorded.                                                  *)
(***************************************************************************)
MaxRetryTicks == 6

RetryCfg == [log |-> TRUE, replies |-> FALSE, keep |-> FALSE,
             jobIds |-> {"a"},
             slots |-> {"w1"},
             holders |-> [w \in Slots |-> {"h1", "h2"}],
             holderArgs |-> {},
             lanes |-> {0},
             laneArgs |-> {NoLane},
             batches |-> {1},
             payloads |-> {GoodPayload},
             depLists |-> {<<>>},
             dedupes |-> {NULL},
             maxAttempts |-> {1, 2, 3},
             errors |-> {},
             plans |-> {}]

InitRetry == InitWith(RetryCfg)

RetryTick ==
    /\ clock < MaxRetryTicks
    /\ clock' = clock + 1
    /\ UNCHANGED <<db, txn, calls, artifacts, reply, cfg, exp>>

NextRetry ==
    \/ LoggedEnqueue
    \/ DoClaimBegin
    \/ DoClaimSelect
    \/ DoClaimRow
    \/ DoClaimReturn
    \/ RetryTick

SpecRetry == InitRetry /\ [][NextRetry]_vars

\* the number of `claimed` events of job j, over both holders
ClaimedCount(t, j) == EventCount(t, j, "claimed", "h1") + EventCount(t, j, "claimed", "h2")

\* C12: with claimers that never report, a job with max_attempts = k is
\* claimed at most k times, attempts counting the claims 1..k; a sweep that
\* finds its lease expired requeues it while attempts < k and moves it to
\* failed with error "max attempts exceeded" when attempts = k; once failed
\* it never changes and is never claimed again.
C12_RetriesBounded ==
    [][ \A j \in JobIds :
          Exists(Latest, j) =>
            LET r == Latest.jobs[j]
                q == Latest'.jobs[j]
                k == r.max_attempts
            IN  /\ q.attempts \in {r.attempts, r.attempts + 1}
                /\ q.attempts <= k
                /\ ClaimedCount(Latest', j) = q.attempts
                /\ (q.attempts = r.attempts + 1) <=> (\E w \in Slots : Gains(w, j))
                /\ \A w \in Slots :
                     (calls[w].pc = "idle" /\ calls'[w].pc = "select"
                        /\ Expired(db, j, calls'[w].now)) =>
                       /\ r.attempts < k => q.status = "queued"
                       /\ r.attempts = k =>
                            q.status = "failed" /\ q.error = "max attempts exceeded"
                /\ (r.status = "running" /\ q.status = "failed") => r.attempts = k
                /\ r.status = "failed" => q = r ]_vars

\* C12 witness: a job with max_attempts 2 was claimed by h1 and, after the
\* requeue, by h2, and the sweep after the second expiry has failed it
C12_Witness ==
    /\ Exists(db, "a")
    /\ db.jobs["a"].max_attempts = 2
    /\ db.jobs["a"].status = "failed"
    /\ db.jobs["a"].error = "max attempts exceeded"
    /\ db.jobs["a"].attempts = 2
    /\ EventCount(db, "a", "claimed", "h1") = 1
    /\ EventCount(db, "a", "claimed", "h2") = 1
    /\ EventCount(db, "a", "requeued", "stale lease") = 1
    /\ EventCount(db, "a", "failed", "max attempts exceeded") = 1

(***************************************************************************)
(* SpecDedupe: one job with or without a dedupe key, an artifact that may  *)
(* appear at any moment, two connections calling /ready concurrently, each *)
(* for its own holder, leases expiring; the event log is recorded.         *)
(***************************************************************************)
DedupeCfg == [log |-> TRUE, replies |-> FALSE, keep |-> FALSE,
              jobIds |-> {"a"},
              slots |-> {"w1", "w2"},
              holders |-> [w \in Slots |-> IF w = "w1" THEN {"h1"} ELSE {"h2"}],
              holderArgs |-> {},
              lanes |-> {0},
              laneArgs |-> {NoLane},
              batches |-> {1},
              payloads |-> {GoodPayload},
              depLists |-> {<<>>},
              dedupes |-> {NULL, "k"},
              maxAttempts |-> {2},
              errors |-> {},
              plans |-> {}]

InitDedupe == InitWith(DedupeCfg)

NextDedupe ==
    \/ LoggedEnqueue
    \/ DoClaimBegin
    \/ DoClaimSelect
    \/ DoClaimRow
    \/ DoClaimReturn
    \/ DoPlaceArtifact
    \/ Tick

SpecDedupe == InitDedupe /\ [][NextDedupe]_vars

\* call w takes the next row of its loop, and an artifact exists for the
\* row's dedupe key
DedupeStep(w) ==
    /\ calls[w].pc = "loop"
    /\ calls[w].rows # <<>>
    /\ calls'[w].rows = Tail(calls[w].rows)
    /\ Head(calls[w].rows).dedupe_key # NULL
    /\ Head(calls[w].rows).dedupe_key \in artifacts

\* C13: when a call reaches a selected row whose dedupe key has an artifact,
\* it does not add the job to the list it returns and logs one dedupe_skip
\* event; the job, if still queued, becomes done with the call's holder,
\* attempts unchanged and lease_until null, committed at once; a job that is
\* no longer queued is left as it is.
C13_DedupeShortCircuit ==
    [][ \A w \in Slots :
          DedupeStep(w) =>
            LET j == Head(calls[w].rows).id
                r == Latest.jobs[j]
            IN  /\ calls'[w].claimed = calls[w].claimed
                /\ txn' = NoTxn
                /\ EventCount(db', j, "dedupe_skip", r.dedupe_key)
                     = EventCount(Latest, j, "dedupe_skip", r.dedupe_key) + 1
                /\ r.status = "queued" =>
                     /\ db'.jobs[j] = [r EXCEPT !.status = "done", !.holder = calls[w].holder]
                     /\ db'.jobs[j].attempts = r.attempts
                     /\ db'.jobs[j].lease_until = NullTime
                /\ r.status # "queued" => db'.jobs[j] = r ]_vars

\* C13 witness: a never-claimed job with an artifact is done, stamped with
\* h1, attempts 0, no lease, one dedupe_skip event and no claimed event
C13_Witness ==
    /\ Exists(db, "a")
    /\ db.jobs["a"].status = "done"
    /\ db.jobs["a"].holder = "h1"
    /\ db.jobs["a"].attempts = 0
    /\ db.jobs["a"].lease_until = NullTime
    /\ db.jobs["a"].dedupe_key = "k"
    /\ EventCount(db, "a", "dedupe_skip", "k") = 1
    /\ ClaimedCount(db, "a") = 0
    /\ calls["w1"].pc = "idle"

(***************************************************************************)
(* SpecOrder: up to three jobs without deps in lanes 0 and 1, enqueued at  *)
(* any tick (so with equal or distinct created_at), one worker calling     *)
(* /ready with or without a lane filter and batch 1 or 2, leases expiring. *)
(***************************************************************************)
OrderCfg == [log |-> FALSE, replies |-> FALSE, keep |-> FALSE,
             jobIds |-> JobIds,
             slots |-> {"w1"},
             holders |-> [w \in Slots |-> {"h1"}],
             holderArgs |-> {"h1"},
             lanes |-> {0, 1},
             laneArgs |-> {NoLane, 0},
             batches |-> {1, 2},
             payloads |-> {GoodPayload},
             depLists |-> {<<>>},
             dedupes |-> {NULL},
             maxAttempts |-> {1},
             errors |-> {},
             plans |-> {}]

InitOrder == InitWith(OrderCfg)

NextOrder ==
    \/ DoEnqueue
    \/ DoClaimBegin
    \/ DoClaimSelect
    \/ DoClaimRow
    \/ DoClaimReturn
    \/ Tick

SpecOrder == InitOrder /\ [][NextOrder]_vars

\* the queued jobs that pass the lane filter L (no job has deps here)
Candidates(L) ==
    { j \in JobIds : /\ Exists(db, j)
                     /\ db.jobs[j].status = "queued"
                     /\ (L # NoLane => db.jobs[j].lane = L) }

\* call w runs its ready query in this step
SelectStep(w) == calls[w].pc = "select" /\ calls'[w].pc = "loop"

\* the ids the query of call w returned, in order
Selected(w) == [i \in 1..Len(calls'[w].rows) |-> calls'[w].rows[i].id]

\* C14: the rows one call selects are the min(batch, ready) oldest candidates
\* by created_at, oldest first; and the single worker claims jobs of a lane
\* for the first time in creation order: when it first claims j, every job of
\* j's lane created before j has been claimed already.
C14_FifoByCreatedAt ==
    [][ \A w \in Slots :
          /\ SelectStep(w) =>
               LET C == Candidates(calls[w].lane)
                   s == Selected(w)
                   n == Len(s)
                   at(j) == db.jobs[j].created_at
               IN  /\ n = Min(calls[w].batch, Cardinality(C))
                   /\ \A i \in 1..n : s[i] \in C
                   /\ \A i, k \in 1..n : i < k => s[i] # s[k] /\ at(s[i]) <= at(s[k])
                   /\ \A j \in C : (\A i \in 1..n : s[i] # j) =>
                                      \A i \in 1..n : at(s[i]) <= at(j)
          /\ \A j \in JobIds :
               (Gains(w, j) /\ Latest.jobs[j].attempts = 0) =>
                  \A o \in JobIds :
                    ( /\ Exists(Latest, o)
                      /\ Latest.jobs[o].lane = Latest.jobs[j].lane
                      /\ Latest.jobs[o].created_at < Latest.jobs[j].created_at )
                       => Latest.jobs[o].attempts >= 1 ]_vars

\* C14 witness: A was enqueued before B; an earlier call returned A (now
\* running) and the present call has just claimed B
C14_Witness ==
    /\ Exists(db, "a") /\ Exists(db, "b")
    /\ db.jobs["a"].created_at < db.jobs["b"].created_at
    /\ db.jobs["a"].status = "running"
    /\ db.jobs["a"].attempts = 1
    /\ calls["w1"].pc = "loop"
    /\ Len(calls["w1"].claimed) = 1
    /\ calls["w1"].claimed[1].id = "b"

\* the lexicographic order of the job ids
IdRank(j) == CASE j = "a" -> 1 [] j = "b" -> 2 [] OTHER -> 3

\* C15: among candidates of equal created_at the query returns the smaller
\* id first, and leaves out the larger one when the batch is full
C15_TiesByIdOrder ==
    [][ \A w \in Slots :
          SelectStep(w) =>
            LET C == Candidates(calls[w].lane)
                s == Selected(w)
                n == Len(s)
                at(j) == db.jobs[j].created_at
            IN  /\ \A i, k \in 1..n :
                     (i < k /\ at(s[i]) = at(s[k])) => IdRank(s[i]) < IdRank(s[k])
                /\ \A j \in C : (\A i \in 1..n : s[i] # j) =>
                       \A i \in 1..n : at(s[i]) = at(j) => IdRank(s[i]) < IdRank(j) ]_vars

(***************************************************************************)
(* SpecLane: two jobs in lanes 0 and 1, with or without a dedupe key and   *)
(* its artifact, one worker calling /ready with no lane, lane 0 or lane 1  *)
(* and batch 1 or 2, leases expiring.                                      *)
(***************************************************************************)
LaneCfg == [log |-> FALSE, replies |-> FALSE, keep |-> FALSE,
            jobIds |-> {"a", "b"},
            slots |-> {"w1"},
            holders |-> [w \in Slots |-> {"h1"}],
            holderArgs |-> {},
            lanes |-> {0, 1},
            laneArgs |-> {NoLane, 0, 1},
            batches |-> {1, 2},
            payloads |-> {GoodPayload},
            depLists |-> {<<>>},
            dedupes |-> {NULL, "k"},
            maxAttempts |-> {1},
            errors |-> {},
            plans |-> {}]

InitLane == InitWith(LaneCfg)

NextLane ==
    \/ DoEnqueue
    \/ DoClaimBegin
    \/ DoClaimSelect
    \/ DoClaimRow
    \/ DoClaimReturn
    \/ DoPlaceArtifact
    \/ Tick

SpecLane == InitLane /\ [][NextLane]_vars

\* C16: a call given lane L selects only jobs of lane L, min(batch, number
\* of queued jobs of lane L) of them; a call without lane selects among the
\* queued jobs of every lane; and a call changes (claims or
\* dedupe-completes) and returns only the rows it selected, whose lane never
\* changes.
C16_LaneFilterStrict ==
    [][ \A w \in Slots :
          /\ SelectStep(w) =>
               LET L == calls[w].lane
                   s == Selected(w)
                   InLane == { j \in JobIds : Exists(db, j) /\ db.jobs[j].status = "queued"
                                                /\ db.jobs[j].lane = L }
                   AnyLane == { j \in JobIds : Exists(db, j) /\ db.jobs[j].status = "queued" }
               IN  /\ L # NoLane =>
                        /\ \A i \in 1..Len(s) : s[i] \in InLane /\ calls'[w].rows[i].lane = L
                        /\ Len(s) = Min(calls[w].batch, Cardinality(InLane))
                   /\ L = NoLane =>
                        /\ \A i \in 1..Len(s) : s[i] \in AnyLane
                        /\ Len(s) = Min(calls[w].batch, Cardinality(AnyLane))
          /\ (calls[w].pc = "loop" /\ calls[w].rows # <<>>
                /\ calls'[w].rows = Tail(calls[w].rows)) =>
               \A j \in JobIds :
                 /\ Gains(w, j) => j = Head(calls[w].rows).id
                 /\ j # Head(calls[w].rows).id => Latest'.jobs[j] = Latest.jobs[j]
                 /\ Exists(Latest, j) => Latest'.jobs[j].lane = Latest.jobs[j].lane ]_vars

\* C16 witness: job b of lane 1 has been claimed while the older job a of
\* lane 0 is still queued and unclaimed: a call filtering on lane 1 passed
\* over it
C16_Witness ==
    /\ Exists(db, "a") /\ Exists(db, "b")
    /\ db.jobs["a"].lane = 0
    /\ db.jobs["b"].lane = 1
    /\ db.jobs["a"].created_at < db.jobs["b"].created_at
    /\ db.jobs["a"].status = "queued"
    /\ db.jobs["a"].attempts = 0
    /\ db.jobs["b"].status = "running"

(***************************************************************************)
(* SpecReject: /enqueue with payloads that do and do not begin with a      *)
(* valid prefix, for two jobs with or without a dep, one worker calling    *)
(* /ready at time 0; the event log and the responses are recorded.         *)
(***************************************************************************)
\* "@gh:", "cmd:x", "@cm", "", "@ghx", "@CMD:x"
PrefixOnly == <<"@", "g", "h", ":">>
NoAtSign == <<"c", "m", "d", ":", "x">>
CutPrefix == <<"@", "c", "m">>
EmptyPayload == <<>>
NoColon == <<"@", "g", "h", "x">>
UpperCase == <<"@", "C", "M", "D", ":", "x">>

RejectCfg == [log |-> TRUE, replies |-> TRUE, keep |-> FALSE,
              jobIds |-> {"a", "b"},
              slots |-> {"w1"},
              holders |-> [w \in Slots |-> {"h1"}],
              holderArgs |-> {},
              lanes |-> {0},
              laneArgs |-> {NoLane},
              batches |-> {1},
              payloads |-> {GoodPayload, PrefixOnly, NoAtSign, CutPrefix, EmptyPayload,
                            NoColon, UpperCase},
              depLists |-> {<<>>, <<"a">>},
              dedupes |-> {NULL},
              maxAttempts |-> {1},
              errors |-> {},
              plans |-> {}]

InitReject == InitWith(RejectCfg)

NextReject ==
    \/ LoggedEnqueue
    \/ DoClaimBegin
    \/ DoClaimSelect
    \/ DoClaimRow
    \/ DoClaimReturn

SpecReject == InitReject /\ [][NextReject]_vars

\* the step answers an /enqueue request
EnqueueStep ==
    /\ reply'.op = "enqueue"
    /\ calls' = calls
    /\ clock' = clock
    /\ artifacts' = artifacts

\* C17: /enqueue with a payload that begins with none of the six prefixes is
\* answered 400 and leaves the tables jobs, job_deps and events, committed
\* and uncommitted, as they were; a payload with a valid prefix is answered
\* 200; and every /enqueue answered 400 has left the tables as they were.
C17_BadPayloadRejected ==
    [][ EnqueueStep =>
          /\ reply'.status = 400 => (db' = db /\ txn' = txn)
          /\ \A deps \in RejectCfg.depLists :
               /\ \A payload \in {NoAtSign, CutPrefix, EmptyPayload, NoColon, UpperCase} :
                    Enqueue(reply'.id, 0, payload, deps, NULL, 1) =>
                      /\ reply'.status = 400
                      /\ db' = db
                      /\ txn' = txn
               /\ \A payload \in {GoodPayload, PrefixOnly} :
                    Enqueue(reply'.id, 0, payload, deps, NULL, 1) =>
                      /\ reply'.status = 200
                      /\ Exists(db', reply'.id) ]_vars

\* C17 witness: the enqueue of b was just answered 400; job a and its one
\* event are in the store, and there is no row and no event for b
C17_Witness ==
    /\ reply.op = "enqueue"
    /\ reply.id = "b"
    /\ reply.status = 400
    /\ Exists(db, "a")
    /\ ~Exists(db, "b")
    /\ db.deps = {}
    /\ BagCardinality(db.events) = 1

(***************************************************************************)
(* SpecAgain: one job enqueued again and again with other lanes, payloads, *)
(* max_attempts and deps, whatever its status: one worker calling /ready,  *)
(* /done and /fail, leases expiring; the responses are recorded.           *)
(***************************************************************************)
AgainCfg == [log |-> FALSE, replies |-> TRUE, keep |-> FALSE,
             jobIds |-> {"a"},
             slots |-> {"w1"},
             holders |-> [w \in Slots |-> {"h1"}],
             holderArgs |-> {"h1"},
             lanes |-> {0, 1},
             laneArgs |-> {NoLane},
             batches |-> {1},
             payloads |-> {GoodPayload, PrefixOnly},
             depLists |-> {<<>>, <<"b">>, <<"b", "c", "b">>},
             dedupes |-> {NULL, "k"},
             maxAttempts |-> {1, 2},
             errors |-> {"boom"},
             plans |-> {}]

InitAgain == InitWith(AgainCfg)

NextAgain ==
    \/ DoEnqueue
    \/ DoClaimBegin
    \/ DoClaimSelect
    \/ DoClaimRow
    \/ DoClaimReturn
    \/ DoMarkDone
    \/ DoMarkFailed
    \/ Tick

SpecAgain == InitAgain /\ [][NextAgain]_vars

\* C18: /enqueue of an id that exists leaves every row of jobs as it was,
\* whatever the job's status, and job_deps becomes the union of what it was
\* and the edges of one of the dep lists a request may carry (an edge given
\* twice, or already present, adds nothing).
C18_EnqueueExistingIsNoOp ==
    [][ (EnqueueStep /\ reply'.status = 200 /\ Exists(db, reply'.id)) =>
          /\ db'.jobs = db.jobs
          /\ \E deps \in AgainCfg.depLists :
               db'.deps = db.deps \cup { <<reply'.id, deps[i]>> : i \in 1..Len(deps) }
          /\ Cardinality(db'.deps) <= 2 ]_vars

\* C18 witness: the last request answered was an /enqueue of a, and a is
\* running in lane 0 with one attempt and both edges recorded once
C18_Witness ==
    /\ reply.op = "enqueue"
    /\ reply.id = "a"
    /\ Exists(db, "a")
    /\ db.jobs["a"].status = "running"
    /\ db.jobs["a"].attempts = 1
    /\ db.deps = {<<"a", "b">>, <<"a", "c">>}

(***************************************************************************)
(* SpecExpand: /expand of a plan of two steps, again and again, while one  *)
(* worker calls /ready, /done and /fail and leases expire; the responses   *)
(* are recorded.  SpecAtomic: /expand of two plans that fail to compile,   *)
(* while one worker calls /ready and /done.                                *)
(***************************************************************************)
\* "- [ ] id=1 lane=0 payload=@cmd:x" and
\* "- [ ] id=2 lane=0 payload=@cmd:x deps=1"
Plan2 == [plan_id |-> "p", accrue |-> FALSE, orphans |-> 0,
          steps |-> << [id |-> "1", lane |-> 0, payload |-> GoodPayload,
                        deps |-> <<>>, dedupe_key |-> NULL],
                       [id |-> "2", lane |-> 0, payload |-> GoodPayload,
                        deps |-> <<"1">>, dedupe_key |-> NULL] >>]

\* "- [ ] id=3 lane=0 payload=@cmd:x deps=9": step 9 is not defined
PlanUnknownDep == [plan_id |-> "p", accrue |-> FALSE, orphans |-> 0,
                   steps |-> << [id |-> "3", lane |-> 0, payload |-> GoodPayload,
                                 deps |-> <<"9">>, dedupe_key |-> NULL] >>]

\* "- [ ] id=3 lane=0 payload=@cmd:x" and "- [ ] id=2 lane=0 payload=cmd:x"
PlanBadPayload == [plan_id |-> "p", accrue |-> FALSE, orphans |-> 0,
                   steps |-> << [id |-> "3", lane |-> 0, payload |-> GoodPayload,
                                 deps |-> <<>>, dedupe_key |-> NULL],
                                [id |-> "2", lane |-> 0, payload |-> NoAtSign,
                                 deps |-> <<>>, dedupe_key |-> NULL] >>]

ExpandCfg == [log |-> FALSE, replies |-> TRUE, keep |-> FALSE,
              jobIds |-> JobIds,
              slots |-> {"w1"},
              holders |-> [w \in Slots |-> {"h1"}],
              holderArgs |-> {"h1"},
              lanes |-> {0},
              laneArgs |-> {NoLane},
              batches |-> {1},
              payloads |-> {GoodPayload},
              depLists |-> {<<>>},
              dedupes |-> {NULL},
              maxAttempts |-> {MAX_ATTEMPTS},
              errors |-> {"boom"},
              plans |-> {Plan2}]

InitExpand == InitWith(ExpandCfg)

NextExpand ==
    \/ DoExpandJobs
    \/ ExpandDeps
    \/ DoClaimBegin
    \/ DoClaimSelect
    \/ DoClaimRow
    \/ DoClaimReturn
    \/ DoMarkDone
    \/ DoMarkFailed
    \/ Tick

SpecExpand == InitExpand /\ [][NextExpand]_vars

AtomicCfg == [ExpandCfg EXCEPT !.plans = {PlanUnknownDep, PlanBadPayload}]

InitAtomic == InitWith(AtomicCfg)

NextAtomic ==
    \/ DoExpandJobs
    \/ ExpandDeps
    \/ DoClaimBegin
    \/ DoClaimSelect
    \/ DoClaimRow
    \/ DoClaimReturn
    \/ DoMarkDone
    \/ Tick

SpecAtomic == InitAtomic /\ [][NextAtomic]_vars

\* the jobs and the edges a plan describes
PlanJobs(plan) == { global_id(plan.plan_id, plan.steps[i].id) : i \in 1..Len(plan.steps) }
PlanEdges(plan) ==
    { e \in JobIds \X JobIds :
        \E i \in 1..Len(plan.steps) :
          /\ e[1] = global_id(plan.plan_id, plan.steps[i].id)
          /\ \E k \in 1..Len(plan.steps[i].deps) :
               e[2] = global_id(plan.plan_id, plan.steps[i].deps[k]) }

\* the store holds every job and every edge of the plan
PlanIn(t, plan) ==
    /\ \A j \in PlanJobs(plan) : Exists(t, j)
    /\ PlanEdges(plan) \subseteq t.deps

\* C19: an /expand of a plan whose jobs and edges are all in the store
\* changes no row of jobs and no edge, in either of its transactions, and is
\* answered 200 when it completes; no transaction of any /expand changes an existing job
\* (status, holder, attempts and the rest) or removes an edge; and after a
\* successful /expand the store holds the plan's jobs and edges.
C19_ExpandIdempotent ==
    [][ /\ \A plan \in ExpandCfg.plans :
             /\ (ExpandJobs(plan) /\ PlanIn(db, plan)) =>
                  /\ db'.jobs = db.jobs
                  /\ db'.deps = db.deps
             /\ (ExpandJobs(plan) \/ (ExpandDeps /\ exp = plan)) =>
                  /\ \A j \in JobIds : Exists(db, j) => db'.jobs[j] = db.jobs[j]
                  /\ db.deps \subseteq db'.deps
        /\ (ExpandDeps /\ PlanIn(db, exp)) =>
             /\ db'.jobs = db.jobs
             /\ db'.deps = db.deps
             /\ reply'.status = 200
        /\ (ExpandDeps /\ reply'.status = 200) => PlanIn(db', exp) ]_vars

\* C19 witness: /expand was just answered 200 while step 1 of the plan is
\* done and step 2 is running: the plan had been expanded before
C19_Witness ==
    /\ reply.op = "expand"
    /\ reply.status = 200
    /\ exp = NoPlan
    /\ PlanIn(db, Plan2)
    /\ db.jobs["a"].status = "done"
    /\ db.jobs["b"].status = "running"
    /\ db.jobs["b"].attempts = 1

\* the plan names a dep that is no step of it, or has a step whose payload
\* has no valid prefix
FailsToCompile(plan) ==
    \/ UnknownDep(plan)
    \/ \E i \in 1..Len(plan.steps) : ~validate_payload(plan.steps[i].payload)

\* C20: no transaction of an /expand of a plan that fails to compile
\* commits anything: the store is as it was after each of its steps, and the
\* request is answered 400.
C20_ExpandAtomic ==
    [][ \A plan \in AtomicCfg.plans :
          FailsToCompile(plan) =>
            /\ ExpandJobs(plan) => db' = db
            /\ (ExpandDeps /\ exp = plan) => (db' = db /\ reply'.status = 400) ]_vars

(***************************************************************************)
(* SpecOrphan: /expand of plan files with the steps of Plan2, with and     *)
(* without the policy line accrue_all_ideas=true and with 0..MaxOrphans    *)
(* lines holding a TODO_ORPHAN: marker, while one worker calls /ready and  *)
(* /done; the responses are recorded.                                      *)
(***************************************************************************)
MaxOrphans == 2

\* the plan file of Plan2 with the policy and n marker lines
PlanWith(accrue, n) == [Plan2 EXCEPT !.accrue = accrue, !.orphans = n]

OrphanCfg == [ExpandCfg EXCEPT
                 !.jobIds = {"a", "b"},
                 !.plans = { PlanWith(accrue, n) : accrue \in BOOLEAN, n \in 0..MaxOrphans }]

InitOrphan == InitWith(OrphanCfg)

NextOrphan ==
    \/ DoExpandJobs
    \/ ExpandDeps
    \/ DoClaimBegin
    \/ DoClaimSelect
    \/ DoClaimRow
    \/ DoClaimReturn
    \/ DoMarkDone

SpecOrphan == InitOrphan /\ [][NextOrphan]_vars

\* C21: an /expand of a plan with the policy on and at least one marker is
\* answered 400 in its first step, changes nothing in the store and has no
\* second transaction; an /expand of any other plan of the specification
\* (policy off or absent with markers, policy on without markers) inserts
\* its jobs, goes on to its second transaction and is answered 200 with the
\* plan's jobs and edges in the store.
C21_OrphansBlockOnlyUnderPolicy ==
    [][ \A plan \in OrphanCfg.plans :
          /\ ExpandJobs(plan) =>
                IF plan.accrue /\ plan.orphans > 0
                THEN db' = db /\ exp' = NoPlan /\ reply'.op = "expand" /\ reply'.status = 400
                ELSE /\ exp' = plan
                     /\ reply' = reply
                     /\ \A j \in PlanJobs(plan) : Exists(db', j)
          /\ (ExpandDeps /\ exp = plan) =>
                /\ ~(plan.accrue /\ plan.orphans > 0)
                /\ reply'.status = 200
                /\ PlanIn(db', plan) ]_vars

\* C21 witness: an /expand was just answered 400 while the store holds the
\* jobs of an earlier /expand that was not blocked, one of them done
C21_Witness ==
    /\ reply.op = "expand"
    /\ reply.status = 400
    /\ exp = NoPlan
    /\ PlanIn(db, Plan2)
    /\ db.jobs["a"].status = "done"
    /\ db.jobs["b"].status = "queued"

(***************************************************************************)
(* Dependency cycles (checked under SpecDeps)                              *)
(***************************************************************************)
\* job j lies on a cycle of recorded edges between jobs of the store
OnCycle(t, j) ==
    \E n \in 1..Cardinality(JobIds) :
      \E p \in [0..n -> JobIds] :
        /\ p[0] = j
        /\ p[n] = j
        /\ \A i \in 0..(n-1) : Exists(t, p[i]) /\ <<p[i], p[i+1]>> \in t.deps

\* C22: a queued job that lies on a dependency cycle is selected by no
\* ready query and stays queued in every step.
C22_CycleJobsStayQueued ==
    [][ \A j \in JobIds :
          (OnCycle(db, j) /\ db.jobs[j].status = "queued") =>
             /\ db'.jobs[j].status = "queued"
             /\ \A w \in Slots :
                  (calls[w].pc = "select" /\ calls'[w].pc = "loop") =>
                     \A i \in 1..Len(calls'[w].rows) : calls'[w].rows[i].id # j ]_vars

(***************************************************************************)
(* SpecLife: one job, with or without a dedupe key, created by /enqueue or *)
(* /expand; two connections calling /ready, /done, /fail and /heartbeat    *)
(* by the same holder, an artifact appearing, leases expiring.             *)
(***************************************************************************)
LifeCfg == [CoreCfg EXCEPT !.holders = [w \in Slots |-> {"h1"}],
                           !.holderArgs = {"h1"},
                           !.maxAttempts = {1, 2}]

InitLife == InitWith(LifeCfg)

NextLife ==
    \/ DoEnqueue
    \/ DoClaimBegin
    \/ DoClaimSelect
    \/ DoClaimRow
    \/ DoClaimReturn
    \/ DoMarkDone
    \/ DoMarkFailed
    \/ DoHeartbeat
    \/ DoExpandJobs
    \/ ExpandDeps
    \/ DoPlaceArtifact
    \/ Tick

SpecLife == InitLife /\ [][NextLife]_vars

\* the status of job j in tables t, "absent" when it has no row
StatusOf(t, j) == IF Exists(t, j) THEN t.jobs[j].status ELSE "absent"

\* C23: a job's row appears with status queued (enqueue or expand), and
\* every change of a job's status, at the statement that makes it, is
\* queued -> running by the claiming update of a claim call, queued -> done
\* by the dedupe branch of a claim call, running -> done by mark-done,
\* running -> failed by mark-failed or by the sweep at the attempts cap, or
\* running -> queued by the sweep below the cap; what is committed is what
\* was written.
C23_LifecycleTransitions ==
    [][ \A j \in JobIds :
          LET old == StatusOf(Latest, j)
              new == StatusOf(Latest', j)
              row == Latest.jobs[j]
          IN  /\ old # new =>
                   \/ old = "absent" /\ new = "queued" /\ (DoEnqueue \/ DoExpandJobs)
                   \/ /\ old = "queued" /\ new = "running"
                      /\ \E w \in Slots : ClaimRow(w) /\ Gains(w, j)
                   \/ /\ old = "queued" /\ new = "done"
                      /\ check_dedupe(row.dedupe_key)
                      /\ \E w \in Slots : ClaimRow(w) /\ Head(calls[w].rows).id = j
                   \/ old = "running" /\ new = "done" /\ DoMarkDone
                   \/ old = "running" /\ new = "failed" /\ DoMarkFailed
                   \/ /\ old = "running" /\ new = "failed"
                      /\ DoClaimBegin
                      /\ row.attempts >= row.max_attempts
                   \/ /\ old = "running" /\ new = "queued"
                      /\ DoClaimBegin
                      /\ row.attempts < row.max_attempts
              /\ StatusOf(db, j) # StatusOf(db', j) => StatusOf(db', j) = new ]_vars

\* C23 witness: a job with a dedupe key that was claimed, swept at the cap
\* into failed, and whose artifact exists by now
C23_Witness ==
    \E j \in JobIds :
        /\ StatusOf(db, j) = "failed"
        /\ db.jobs[j].error = "max attempts exceeded"
        /\ db.jobs[j].attempts = 1
        /\ db.jobs[j].dedupe_key \in artifacts

(***************************************************************************)
(* SpecHistory: one job in lane 0 or 1, with or without a dedupe key and a *)
(* dep edge, enqueued by /enqueue (again and again) or /expand; one        *)
(* connection calling /ready, /done, /fail and /heartbeat, an artifact     *)
(* appearing, leases expiring.  Table events is recorded; the requests     *)
(* that only append to it stop when it holds MaxEvents rows.               *)
(***************************************************************************)
HistoryCfg == [LifeCfg EXCEPT !.log = TRUE,
                              !.slots = {"w1"},
                              !.lanes = {0, 1},
                              !.depLists = {<<>>, <<"b">>}]

InitHistory == InitWith(HistoryCfg)

LoggedMarkFailed == LogRoom /\ DoMarkFailed
LoggedExpandJobs == LogRoom /\ DoExpandJobs

NextHistory ==
    \/ LoggedEnqueue
    \/ DoClaimBegin
    \/ DoClaimSelect
    \/ DoClaimRow
    \/ DoClaimReturn
    \/ LoggedMarkDone
    \/ LoggedMarkFailed
    \/ DoHeartbeat
    \/ LoggedExpandJobs
    \/ ExpandDeps
    \/ DoPlaceArtifact
    \/ Tick

SpecHistory == InitHistory /\ [][NextHistory]_vars

\* tables u hold every row of jobs, job_deps and events that tables t hold,
\* with lane, payload, dedupe_key, max_attempts and created_at as in t
Keeps(t, u) ==
    /\ \A j \in JobIds :
          Exists(t, j) =>
            /\ Exists(u, j)
            /\ u.jobs[j].lane = t.jobs[j].lane
            /\ u.jobs[j].payload = t.jobs[j].payload
            /\ u.jobs[j].dedupe_key = t.jobs[j].dedupe_key
            /\ u.jobs[j].max_attempts = t.jobs[j].max_attempts
            /\ u.jobs[j].created_at = t.jobs[j].created_at
    /\ t.deps \subseteq u.deps
    /\ t.events \sqsubseteq u.events

\* C24: every step keeps every job, edge and event, and the lane, payload,
\* dedupe_key, max_attempts and created_at of every job, in the committed
\* tables and in the uncommitted view of an open transaction.
C24_HistoryIsPermanent ==
    [][ Keeps(db, db') /\ Keeps(Latest, Latest') ]_vars

\* C24 witness: a job enqueued at time 0 in lane 1 with a dep edge, enqueued
\* again, claimed, and failed by the sweep at the cap
C24_Witness ==
    /\ StatusOf(db, "a") = "failed"
    /\ db.jobs["a"].error = "max attempts exceeded"
    /\ db.jobs["a"].attempts = 1
    /\ db.jobs["a"].lane = 1
    /\ db.jobs["a"].created_at = 0
    /\ <<"a", "b">> \in db.deps
    /\ \E e \in BagToSet(db.events) : e.kind = "enqueued" /\ CopiesIn(e, db.events) >= 2
    /\ EventCount(db, "a", "claimed", "h1") = 1

\* C25: in the committed tables and in the view of an open transaction,
\* attempts of every job equals the number of its claimed events; and the
\* only step that changes attempts is a claiming update that moves the job
\* from queued to running, which adds one (the sweep, heartbeat, mark-done,
\* mark-failed, the dedupe branch and a repeated enqueue leave it as it is).
C25_AttemptsCountClaims ==
    /\ [](\A j \in JobIds :
            /\ Exists(db, j) => db.jobs[j].attempts = ClaimedCount(db, j)
            /\ Exists(Latest, j) => Latest.jobs[j].attempts = ClaimedCount(Latest, j))
    /\ [][ \A j \in JobIds :
             (Exists(Latest, j) /\ Latest'.jobs[j].attempts # Latest.jobs[j].attempts) =>
                /\ Latest'.jobs[j].attempts = Latest.jobs[j].attempts + 1
                /\ Latest.jobs[j].status = "queued"
                /\ Latest'.jobs[j].status = "running"
                /\ \E w \in Slots : ClaimRow(w) /\ Gains(w, j) ]_vars

\* C25 witness: a job claimed once, its lease renewed by a heartbeat after
\* time had passed, then completed by /done: attempts is 1 with one claimed
\* event
C25_Witness ==
    /\ StatusOf(db, "a") = "done"
    /\ db.jobs["a"].attempts = 1
    /\ ClaimedCount(db, "a") = 1
    /\ EventCount(db, "a", "done", "") = 1
    /\ db.jobs["a"].lease_until > LEASE_MS

(***************************************************************************)
(* Requests with bad input.  The handlers of /done, /fail and /heartbeat   *)
(* index the body (body["id"], body["holder"]) and do_GET converts batch,  *)
(* lane and limit with int(), outside any try: the KeyError or ValueError  *)
(* leaves the handler, the server closes the connection, and no response   *)
(* is sent.  Nothing has been executed on the database by then.            *)
(***************************************************************************)
\* the status recorded for a request that got no response
NoResponse == 0

Unanswered(op) ==
    IF cfg.replies
    THEN [op |-> op, id |-> NULL, holder |-> NULL, status |-> NoResponse,
          ok |-> FALSE, jobs |-> <<>>]
    ELSE NoReply

\* the keys the handler of the path reads with body[...]
Required(path) == IF path = "heartbeat" THEN {"id", "holder"} ELSE {"id"}

\* POST /done, /fail or /heartbeat whose body has only the given keys
PostMissing(path, keys) ==
    /\ path \in {"done", "fail", "heartbeat"}
    /\ ~(Required(path) \subseteq keys)
    /\ reply' = Unanswered(path)
    /\ UNCHANGED <<db, txn, calls, exp, clock, artifacts, cfg>>

\* GET /ready with a batch or lane, or GET /jobs with a limit, that int()
\* rejects
GetNotInt(path, param) ==
    /\ \/ path = "ready" /\ param \in {"batch", "lane"}
       \/ path = "jobs" /\ param = "limit"
    /\ reply' = Unanswered(path)
    /\ UNCHANGED <<db, txn, calls, exp, clock, artifacts, cfg>>

\* POST /enqueue whose body lacks id or payload: the KeyError is caught
EnqueueMissing ==
    /\ reply' = Reply("enqueue", NULL, NULL, 400, FALSE, <<>>)
    /\ UNCHANGED <<db, txn, calls, exp, clock, artifacts, cfg>>

\* any other path, GET or POST
UnknownPath ==
    /\ reply' = Reply("unknown", NULL, NULL, 404, FALSE, <<>>)
    /\ UNCHANGED <<db, txn, calls, exp, clock, artifacts, cfg>>

DoPostMissing ==
    \E path \in {"done", "fail", "heartbeat"}, keys \in SUBSET {"id", "holder"} :
        PostMissing(path, keys)

DoGetNotInt ==
    \E path \in {"ready", "jobs"}, param \in {"batch", "lane", "limit"} :
        GetNotInt(path, param)

(***************************************************************************)
(* SpecBadInput: one job and one worker, with requests whose input is bad  *)
(* among the good ones; the responses are recorded.                        *)
(***************************************************************************)
BadInputCfg == [LeaseCfg EXCEPT !.lanes = {0}, !.laneArgs = {NoLane},
                                !.holderArgs = {"h1"}]

InitBadInput == InitWith(BadInputCfg)

NextBadInput ==
    \/ DoEnqueue
    \/ DoClaimBegin
    \/ DoClaimSelect
    \/ DoClaimRow
    \/ DoClaimReturn
    \/ DoMarkDone
    \/ DoMarkFailed
    \/ DoHeartbeat
    \/ DoPostMissing
    \/ DoGetNotInt
    \/ EnqueueMissing
    \/ UnknownPath
    \/ Tick

SpecBadInput == InitBadInput /\ [][NextBadInput]_vars

\* C26: a POST /done, /fail or /heartbeat that lacks a required field and a
\* GET /ready or /jobs with a non-integer batch, lane or limit are answered
\* with a 4xx status and an error body and change nothing in the store; an
\* unknown path is answered 404.
C26_BadInputAnswered4xx ==
    [][ /\ (DoPostMissing \/ DoGetNotInt) =>
              /\ reply'.status \in 400..499
              /\ ~reply'.ok
              /\ db' = db /\ txn' = txn
        /\ UnknownPath => (reply'.status = 404 /\ db' = db /\ txn' = txn) ]_vars

(***************************************************************************)
(* The local worker's command-safety gate.  A command is the sequence of   *)
(* its characters.                                                         *)
(***************************************************************************)
CMD_ALLOWLIST ==
    {
      <<"e","c","h","o"," ">>,  \* "echo "
      <<"c","a","t"," ">>,  \* "cat "
      <<"t","e","s","t"," ">>,  \* "test "
      <<"l","s"," ">>,  \* "ls "
      <<"m","k","d","i","r"," ">>,  \* "mkdir "
      <<"c","p"," ">>,  \* "cp "
      <<"m","v"," ">>,  \* "mv "
      <<"g","o"," ","t","e","s","t">>,  \* "go test"
      <<"g","o"," ","b","u","i","l","d">>,  \* "go build"
      <<"g","o"," ","v","e","t">>,  \* "go vet"
      <<"g","o"," ","f","m","t">>,  \* "go fmt"
      <<"p","y","t","h","o","n">>,  \* "python"
      <<"p","i","p"," ">>,  \* "pip "
      <<"n","p","m"," ">>,  \* "npm "
      <<"n","p","x"," ">>,  \* "npx "
      <<"n","o","d","e"," ">>,  \* "node "
      <<"m","a","k","e">>,  \* "make"
      <<"c","a","r","g","o"," ">>,  \* "cargo "
      <<"r","u","s","t","c"," ">>,  \* "rustc "
      <<"g","i","t"," ">>,  \* "git "
      <<"d","i","f","f"," ">>,  \* "diff "
      <<"p","a","t","c","h"," ">>,  \* "patch "
      <<"s","w","i","f","t"," ">>,  \* "swift "
      <<"x","c","o","d","e","b","u","i","l","d">>,  \* "xcodebuild"
      <<".","/","c","o","d","e"," ">>,  \* "./code "
      <<".","/","s","c","r","i","p","t","s","/","c","o","d","e">>,  \* "./scripts/code"
      <<"t","r","u","e">>,  \* "true"
      <<"f","a","l","s","e">>,  \* "false"
      <<"t","o","u","c","h"," ">>,  \* "touch "
      <<"r","m"," ">>,  \* "rm "
      <<"h","e","a","d"," ">>,  \* "head "
      <<"t","a","i","l"," ">>,  \* "tail "
      <<"w","c"," ">>,  \* "wc "
      <<"s","o","r","t"," ">>,  \* "sort "
      <<"u","n","i","q"," ">>,  \* "uniq "
      <<"g","r","e","p"," ">>,  \* "grep "
      <<"r","g"," ">>,  \* "rg "
      <<"f","d"," ">>,  \* "fd "
      <<"s","h","a","1","s","u","m">>,  \* "sha1sum"
      <<"s","h","a","2","5","6","s","u","m">>,  \* "sha256sum"
      <<"m","d","5","s","u","m">>,  \* "md5sum"
      <<"s","l","e","e","p"," ">> }  \* "sleep "

CMD_BLOCKLIST ==
    {
      <<"r","m"," ","-","r","f"," ","/">>,  \* "rm -rf /"
      <<"r","m"," ","-","r","f"," ","~">>,  \* "rm -rf ~"
      <<"s","u","d","o"," ">>,  \* "sudo "
      <<"c","u","r","l"," ">>,  \* "curl "
      <<"w","g","e","t"," ">>,  \* "wget "
      <<"e","v","a","l"," ">>,  \* "eval "
      <<">"," ","/","d","e","v","/">>,  \* "> /dev/"
      <<"m","k","f","s">>,  \* "mkfs"
      <<"d","d"," ","i","f","=">>,  \* "dd if="
      <<":","(",")","{"," ">> }  \* ":(){ "

\* the characters str.strip() removes
Whitespace == {" ", "\t", "\n", "\r"}

\* s.strip(): s without its leading and trailing whitespace
RECURSIVE lstrip(_)
lstrip(s) == IF s # <<>> /\ Head(s) \in Whitespace THEN lstrip(Tail(s)) ELSE s

RECURSIVE rstrip(_)
rstrip(s) ==
    IF s # <<>> /\ s[Len(s)] \in Whitespace THEN rstrip(SubSeq(s, 1, Len(s) - 1)) ELSE s

strip(s) == rstrip(lstrip(s))

\* sub in s: sub occurs in s as a substring
contains(s, sub) ==
    \E i \in 1..(Len(s) - Len(sub) + 1) : SubSeq(s, i, i + Len(sub) - 1) = sub

\* mutant: the allowlist is tried before the blocklist
is_cmd_safe_AllowFirst(cmd) ==
    LET cmd_stripped == strip(cmd)
    IN  IF \E prefix \in CMD_ALLOWLIST :
              startswith(cmd_stripped, prefix) \/ cmd_stripped = strip(prefix)
        THEN TRUE
        ELSE IF \E blocked \in CMD_BLOCKLIST : contains(cmd_stripped, blocked)
        THEN FALSE
        ELSE startswith(cmd_stripped, <<".", "/">>)

is_cmd_safe(cmd) ==
    LET cmd_stripped == strip(cmd)
    IN  IF \E blocked \in CMD_BLOCKLIST : contains(cmd_stripped, blocked)
        THEN FALSE
        ELSE IF \E prefix \in CMD_ALLOWLIST :
                   startswith(cmd_stripped, prefix) \/ cmd_stripped = strip(prefix)
        THEN TRUE
        ELSE startswith(cmd_stripped, <<".", "/">>)

(***************************************************************************)
(* worker_loop in local mode.  A worker is a request slot whose claim call *)
(* keeps the list it returned (cfg.keep): pc = "returned" while the worker *)
(* goes through the jobs of the list, one execute_job_local after the      *)
(* other.  It sends no request but the /done or /fail that ends each job.  *)
(***************************************************************************)
CmdPrefix == <<"@","c","m","d",":">>
FilePrefix == <<"@","f","i","l","e",":">>
MetaPrefixes == { <<"@","d","o","c",":">>, <<"@","u","r","l",":">>, <<"@","g","i","t",":">>, <<"@","g","h",":">> }

\* the fixed beginning of the error of a blocked command (the command, cut
\* to 60 characters, follows it)
BlockedError == "blocked command: "

\* payload[len("@cmd:"):]
CmdOf(payload) == SubSeq(payload, Len(CmdPrefix) + 1, Len(payload))

\* mutant: the @cmd: branch without the gate
Outcomes_NoGate(payload) ==
    IF startswith(payload, CmdPrefix)
    THEN {[post |-> "done", error |-> NULL]} \cup {[post |-> "fail", error |-> e] : e \in cfg.errors}
    ELSE {[post |-> "fail", error |-> "unknown payload type: "]}

\* the requests execute_job_local may end with: [post |-> "done"] or
\* [post |-> "fail", error |-> e].  A command that passes the gate, a patch
\* and a file test run and exit with 0 or not.
Outcomes(payload) ==
    LET done == {[post |-> "done", error |-> NULL]}
        fail(E) == {[post |-> "fail", error |-> e] : e \in E}
    IN  IF startswith(payload, CmdPrefix)
        THEN IF ~is_cmd_safe(CmdOf(payload))
             THEN fail({BlockedError})
             ELSE done \cup fail(cfg.errors)
        ELSE IF startswith(payload, FilePrefix) /\ contains(payload, <<"#","a","p","p","l","y">>)
        THEN done \cup fail(cfg.errors)
        ELSE IF startswith(payload, FilePrefix) /\ contains(payload, <<"#","t","e","s","t">>)
        THEN done \cup fail({"test failed: "})
        ELSE IF \E p \in MetaPrefixes : startswith(payload, p)
        THEN done
        ELSE IF startswith(payload, FilePrefix)
        THEN fail({"LLM-required job; not executable in local mode"})
        ELSE fail({"unknown payload type: "})

\* execute_job_local for the next job of the list: the POST /done or /fail
\* it ends with, with the worker's holder
WorkerExecute(w) ==
    /\ calls[w].pc = "returned"
    /\ calls[w].claimed # <<>>
    /\ txn = NoTxn
    /\ LET job == Head(calls[w].claimed)
           holder == calls[w].holder
       IN  \E out \in Outcomes(job.payload) :
             IF out.post = "done"
             THEN /\ db' = mark_done(db, job.id, holder)
                  /\ reply' = Reply("done", job.id, holder, 200, TRUE, <<>>)
             ELSE /\ db' = mark_failed(db, job.id, out.error, holder)
                  /\ reply' = Reply("fail", job.id, holder, 200, TRUE, <<>>)
    /\ calls' = [calls EXCEPT ![w].claimed = Tail(@)]
    /\ UNCHANGED <<txn, exp, clock, artifacts, cfg>>

\* the list is done: sleep, then poll again
WorkerSleep(w) ==
    /\ calls[w].pc = "returned"
    /\ calls[w].claimed = <<>>
    /\ calls' = [calls EXCEPT ![w] = IdleCall]
    /\ UNCHANGED <<db, txn, exp, clock, artifacts, reply, cfg>>

DoWorkerExecute == \E w \in Slots : WorkerExecute(w)
DoWorkerSleep == \E w \in Slots : WorkerSleep(w)

(***************************************************************************)
(* SpecWorker: two local workers (holders h1, h2) polling /ready with      *)
(* batch 1 and executing what they get, jobs whose command passes the      *)
(* gate and may run for longer than the lease.                             *)
(***************************************************************************)
\* "@cmd:sleep 60"
SleepPayload == <<"@","c","m","d",":","s","l","e","e","p"," ","6","0">>

WorkerCfg == [log |-> FALSE, replies |-> FALSE, keep |-> TRUE,
              jobIds |-> {"a", "b"},
              slots |-> {"w1", "w2"},
              holders |-> [w \in Slots |-> IF w = "w1" THEN {"h1"} ELSE {"h2"}],
              holderArgs |-> {},
              lanes |-> {0},
              laneArgs |-> {NoLane},
              batches |-> {1},
              payloads |-> {SleepPayload},
              depLists |-> {<<>>},
              dedupes |-> {NULL},
              maxAttempts |-> {MAX_ATTEMPTS},
              errors |-> {"exit code 1"},
              plans |-> {}]

InitWorker == InitWith(WorkerCfg)

NextWorker ==
    \/ DoEnqueue
    \/ DoClaimBegin
    \/ DoClaimSelect
    \/ DoClaimRow
    \/ DoClaimReturn
    \/ DoWorkerExecute
    \/ DoWorkerSleep
    \/ Tick

SpecWorker == InitWorker /\ [][NextWorker]_vars

\* worker w is executing job j: it is the next job of its list
Executing(w, j) ==
    /\ calls[w].pc = "returned"
    /\ calls[w].claimed # <<>>
    /\ Head(calls[w].claimed).id = j

\* C27: while a worker executes a job, the job stays running under that
\* worker's holder (it is not swept), and no second worker executes it.
C27_LeaseKeptWhileExecuting ==
    \A w \in Slots, j \in JobIds :
        Executing(w, j) =>
            /\ db.jobs[j].status = "running"
            /\ db.jobs[j].holder = calls[w].holder
            /\ \A v \in Slots \ {w} : ~Executing(v, j)

(***************************************************************************)
(* SpecGate: one local worker polling /ready and executing @cmd: jobs      *)
(* whose commands are put together from a beginning, a stem and an end.    *)
(***************************************************************************)
CmdPres == { <<>>, <<" ">> }
CmdStems == { <<"l","s">>, <<"r","m">>, <<"x">>, <<".","/","x">>, <<"m","a","k","e">>, <<"s","u","d","o">> }
CmdTails == { <<>>, <<" ">>, <<" ","-","r","f"," ","/">>, <<"x">>, <<" ","s","u","d","o"," ","y">> }

Commands == { pre \o stem \o tail : pre \in CmdPres, stem \in CmdStems, tail \in CmdTails }

GateCfg == [WorkerCfg EXCEPT !.jobIds = {"a"},
                             !.slots = {"w1"},
                             !.payloads = { CmdPrefix \o cmd : cmd \in Commands },
                             !.maxAttempts = {1}]

InitGate == InitWith(GateCfg)

NextGate ==
    \/ DoEnqueue
    \/ DoClaimBegin
    \/ DoClaimSelect
    \/ DoClaimRow
    \/ DoClaimReturn
    \/ DoWorkerExecute
    \/ DoWorkerSleep

SpecGate == InitGate /\ [][NextGate]_vars

\* the step is worker w's execute_job_local of job j
Executes(w, j) ==
    /\ Executing(w, j)
    /\ calls'[w].pc = "returned"
    /\ Len(calls'[w].claimed) < Len(calls[w].claimed)

\* the step left job j failed as a blocked command
Blocks(j) == db'.jobs[j].status = "failed" /\ db'.jobs[j].error = BlockedError

\* the stripped command has a blocklist entry as a substring
HitsBlocklist(cmd) == \E blocked \in CMD_BLOCKLIST : contains(strip(cmd), blocked)

\* C28 as stated: the worker blocks the command of a job it executes when
\* the command contains a blocklist entry; otherwise it lets it run if and
\* only if an allowlist entry is a prefix of the stripped command or the
\* stripped command begins with "./".
C28_GateDecides ==
    [][ \A w \in Slots, j \in JobIds :
          Executes(w, j) =>
            LET cmd == CmdOf(db.jobs[j].payload)
            IN  ~Blocks(j) <=>
                  /\ ~HitsBlocklist(cmd)
                  /\ \/ \E prefix \in CMD_ALLOWLIST : startswith(strip(cmd), prefix)
                     \/ startswith(strip(cmd), <<".", "/">>) ]_vars

\* C28 amended: as above, and a stripped command that equals an allowlist
\* entry without the entry's surrounding whitespace ("ls" for "ls ") is let
\* run as well.
C28_GateDecidesAmended ==
    [][ \A w \in Slots, j \in JobIds :
          Executes(w, j) =>
            LET cmd == CmdOf(db.jobs[j].payload)
            IN  ~Blocks(j) <=>
                  /\ ~HitsBlocklist(cmd)
                  /\ \/ \E prefix \in CMD_ALLOWLIST : startswith(strip(cmd), prefix)
                     \/ \E prefix \in CMD_ALLOWLIST : strip(cmd) = strip(prefix)
                     \/ startswith(strip(cmd), <<".", "/">>) ]_vars

\* C28 witness: the job with command " rm " was let run and is done, after
\* which /ready was polled again
C28_Witness ==
    /\ StatusOf(db, "a") = "done"
    /\ CmdOf(db.jobs["a"].payload) = <<" ","r","m"," ">>
    /\ calls["w1"].pc = "loop"

(***************************************************************************)
(* SpecBlocked: two local workers and one job whose command fails the gate *)
(* (by the blocklist, or by matching nothing) or passes it; leases expire. *)
(***************************************************************************)
BlockedCfg == [WorkerCfg EXCEPT !.jobIds = {"a"},
                                !.payloads = { GoodPayload, CmdPrefix \o <<"l","s"," ","s","u","d","o"," ","y">>,
                                               CmdPrefix \o <<"l","s">> },
                                !.maxAttempts = {1, 2}]

InitBlocked == InitWith(BlockedCfg)

NextBlocked ==
    \/ DoEnqueue
    \/ DoClaimBegin
    \/ DoClaimSelect
    \/ DoClaimRow
    \/ DoClaimReturn
    \/ DoWorkerExecute
    \/ DoWorkerSleep
    \/ Tick

SpecBlocked == InitBlocked /\ [][NextBlocked]_vars

\* C29: when a local worker comes to a job whose @cmd: command fails the
\* gate, the step is exactly a /fail of the job with the worker's holder and
\* the blocked-command error: the job, if still running under that holder,
\* becomes failed with that error, and is never marked done by the step; and
\* a job failed as a blocked command never changes again and is handed to no
\* call.
C29_BlockedCommandFails ==
    [][ \A j \in JobIds :
          /\ \A w \in Slots :
                (Executes(w, j) /\ ~is_cmd_safe(CmdOf(Head(calls[w].claimed).payload))) =>
                   /\ db' = mark_failed(db, j, BlockedError, calls[w].holder)
                   /\ MarkGuard(db, j, calls[w].holder) => Blocks(j)
                   /\ StatusOf(db', j) = "done" => StatusOf(db, j) = "done"
          /\ (StatusOf(Latest, j) = "failed" /\ Latest.jobs[j].error = BlockedError) =>
                   /\ Latest'.jobs[j] = Latest.jobs[j]
                   /\ \A w \in Slots : ~Gains(w, j) ]_vars

\* C29 witness: a job that failed as a blocked command at its second
\* attempt: the first worker's lease had expired before it reported
C29_Witness ==
    /\ StatusOf(db, "a") = "failed"
    /\ db.jobs["a"].error = BlockedError
    /\ db.jobs["a"].attempts = 2
    /\ calls["w1"].pc = "select"

(***************************************************************************)
(* Expand against concurrent claims (checked under SpecExpand)             *)
(***************************************************************************)
\* C30: no call is handed a job of a plan while a job that the plan declares
\* as its dep is not done.
C30_ExpandHidesJobsWithoutEdges ==
    [][ \A plan \in ExpandCfg.plans, w \in Slots :
          \A e \in PlanEdges(plan) :
            Gains(w, e[1]) => StatusOf(Latest, e[2]) = "done" ]_vars

(***************************************************************************)
(* A dep id with no job (SpecDeps)                                         *)
(***************************************************************************)
\* job j has a recorded dep for which table jobs has no row
MissingDep(t, j) == \E d \in JobIds : <<j, d>> \in t.deps /\ ~Exists(t, d)

\* C31: a job that has a dep id for which no job exists is not returned by
\* a claim call: no call selects it with its ready query, and no call adds
\* it to the list it returns.
C31_MissingDepBlocks ==
    [][ \A w \in Slots :
          /\ (calls[w].pc = "select" /\ calls'[w].pc = "loop") =>
               \A i \in 1..Len(calls'[w].rows) : ~MissingDep(db, calls'[w].rows[i].id)
          /\ \A j \in JobIds : Gains(w, j) => ~MissingDep(Latest, j) ]_vars

(***************************************************************************)
(* SpecSweeps: concurrent sweeps.  requeue_stale reads the clock, then     *)
(* waits for the write lock (BEGIN IMMEDIATE), selects the stale rows,     *)
(* updates them and commits.  Two connections call /ready for one job with *)
(* max_attempts 1 or 2 whose claimers never report, while up to            *)
(* MaxSweepTicks ticks pass; the event log is recorded.                    *)
(***************************************************************************)
\* now = time.time() of requeue_stale, before BEGIN IMMEDIATE
SweepRead(w, holder, lane, batch) ==
    /\ calls[w].pc = "idle"
    /\ calls' = [calls EXCEPT ![w] = [IdleCall EXCEPT !.pc = "sweep", !.holder = holder,
                                         !.lane = lane, !.batch = batch, !.now = time_time]]
    /\ UNCHANGED <<db, txn, exp, clock, artifacts, reply, cfg>>

\* BEGIN IMMEDIATE (granted when no connection holds the write lock), the
\* SELECT of the stale rows against the time read before, the UPDATEs and
\* events, COMMIT; then claim_ready reads the clock for the lease it grants.
SweepRun(w) ==
    /\ calls[w].pc = "sweep"
    /\ txn = NoTxn
    /\ db' = requeue_stale(db, calls[w].now)
    /\ calls' = [calls EXCEPT ![w].pc = "select", ![w].now = time_time]
    /\ UNCHANGED <<txn, exp, clock, artifacts, reply, cfg>>

DoSweepRead ==
    \E w \in cfg.slots, lane \in cfg.laneArgs, batch \in cfg.batches :
        \E holder \in cfg.holders[w] : SweepRead(w, holder, lane, batch)

DoSweepRun == \E w \in Slots : SweepRun(w)

\* ticks enough for two leases of a job to expire
MaxSweepTicks == 4

SweepsTick ==
    /\ clock < MaxSweepTicks
    /\ clock' = clock + 1
    /\ UNCHANGED <<db, txn, calls, artifacts, reply, cfg, exp>>

SweepsCfg == [RetryCfg EXCEPT !.slots = {"w1", "w2"},
                              !.holders = [w \in Slots |-> IF w = "w1" THEN {"h1"} ELSE {"h2"}],
                              !.maxAttempts = {1, 2}]

InitSweeps == InitWith(SweepsCfg)

NextSweeps ==
    \/ LoggedEnqueue
    \/ DoSweepRead
    \/ DoSweepRun
    \/ DoClaimSelect
    \/ DoClaimRow
    \/ DoClaimReturn
    \/ SweepsTick

SpecSweeps == InitSweeps /\ [][NextSweeps]_vars

\* the number of events the sweeps have appended for job j
SweptCount(t, j) ==
    EventCount(t, j, "requeued", "stale lease") + EventCount(t, j, "failed", "max attempts exceeded")

\* the number of leases of job j that have ended: a lease is granted by each
\* claim, and the last one is still held while the job is running
EndedLeases(t, j) ==
    ClaimedCount(t, j) - (IF t.jobs[j].status = "running" THEN 1 ELSE 0)

\* C32: with sweeps of several claim calls running concurrently, each
\* expired lease of a job is handled by exactly one sweep.  In every state
\* the sweeps have appended one event per ended lease of the job (one
\* `requeued` event per requeue, a single `failed` event at the cap); and a
\* step appends at most one such event, in a sweep that found the job
\* running with its lease expired and leaves it queued with holder and
\* lease cleared, or failed.
C32_OneSweepPerExpiry ==
    /\ [](\A j \in JobIds : \A t \in {db, Latest} :
            Exists(t, j) =>
              /\ SweptCount(t, j) = EndedLeases(t, j)
              /\ EventCount(t, j, "failed", "max attempts exceeded")
                   = (IF t.jobs[j].status = "failed" THEN 1 ELSE 0))
    /\ [][ \A j \in JobIds :
             Exists(db, j) /\ SweptCount(db', j) # SweptCount(db, j) =>
               /\ SweptCount(db', j) = SweptCount(db, j) + 1
               /\ \E w \in Slots :
                    /\ calls[w].pc = "sweep" /\ calls'[w].pc = "select"
                    /\ Expired(db, j, calls[w].now)
               /\ \/ /\ db'.jobs[j].status = "queued"
                     /\ db'.jobs[j].holder = NULL
                     /\ db'.jobs[j].lease_until = NullTime
                  \/ db'.jobs[j].status = "failed" ]_vars

\* C32 witness: both calls read the clock after the second lease of the job
\* had expired; the sweep of one has failed the job at its cap, the other is
\* about to run its sweep; the first expiry was requeued once
C32_Witness ==
    \E w, v \in Slots :
        /\ calls[w].pc = "select"
        /\ calls[v].pc = "sweep"
        /\ Exists(db, "a")
        /\ db.jobs["a"].status = "failed"
        /\ db.jobs["a"].lease_until < calls[v].now
        /\ ClaimedCount(db, "a") = 2
        /\ EventCount(db, "a", "requeued", "stale lease") = 1
        /\ EventCount(db, "a", "failed", "max attempts exceeded") = 1

(***************************************************************************)
(* Running jobs and their deps (SpecDeps)                                  *)
(***************************************************************************)
\* C33: in every state, every recorded dep edge of a running job points to
\* a job whose status is done.
C33_RunningHasDepsDone ==
    \A j \in JobIds :
        (Exists(db, j) /\ db.jobs[j].status = "running") =>
            \A d \in JobIds :
                <<j, d>> \in db.deps => Exists(db, d) /\ db.jobs[d].status = "done"

(***************************************************************************)
(* The event log and the job table (SpecHistory)                           *)
(***************************************************************************)
RECURSIVE SumCopies(_, _)
SumCopies(S, B) ==
    IF S = {} THEN 0
    ELSE LET e == CHOOSE x \in S : TRUE
         IN  CopiesIn(e, B) + SumCopies(S \ {e}, B)

\* the number of events of job j of the given kind, whatever their message
KindCount(t, j, kind) ==
    SumCopies({ e \in BagToSet(t.events) : e.job_id = j /\ e.kind = kind }, t.events)

\* C34: a `done` event is appended only by a step that moves the job from
\* running to done, a `failed` event only by a step that moves the job to
\* failed; and no job has more than one terminal (`done` or `failed`) event.
C34_EventsMatchTransitions ==
    /\ [](\A j \in JobIds : KindCount(db, j, "done") + KindCount(db, j, "failed") <= 1)
    /\ [][ \A j \in JobIds :
             /\ KindCount(db', j, "done") # KindCount(db, j, "done") =>
                  /\ Exists(db, j)
                  /\ db.jobs[j].status = "running"
                  /\ db'.jobs[j].status = "done"
             /\ KindCount(db', j, "failed") # KindCount(db, j, "failed") =>
                  /\ Exists(db, j)
                  /\ db.jobs[j].status = "running"
                  /\ db'.jobs[j].status = "failed" ]_vars

(***************************************************************************)
(* SpecLive: a finite acyclic job set, all deps present, enqueued before   *)
(* the worker starts: three jobs, any edges among b->a, c->a, c->b, each   *)
(* job with or without the dedupe key, whose artifact is present or not.   *)
(* One worker polls /ready with no lane filter and batch 1 or 2 and        *)
(* reports /done for every job it is given; no lease expires.  The worker  *)
(* is scheduled fairly.                                                    *)
(***************************************************************************)
\* "@doc:x": execute_job_local reports done for it
DocPayload == <<"@","d","o","c",":","x">>

\* the edges x -> y (x waits for y) the job sets are built from
LiveEdges == { <<"b", "a">>, <<"c", "a">>, <<"c", "b">> }

LiveCfg == [WorkerCfg EXCEPT !.jobIds = JobIds,
                             !.slots = {"w1"},
                             !.lanes = {0, 1},
                             !.batches = {1, 2},
                             !.payloads = {DocPayload},
                             !.dedupes = {NULL, "k"},
                             !.errors = {}]

InitLive ==
    /\ cfg = LiveCfg
    /\ txn = NoTxn
    /\ calls = [w \in Slots |-> IdleCall]
    /\ exp = NoPlan
    /\ clock = 0
    /\ reply = NoReply
    /\ artifacts \in {{}, {"k"}}
    /\ \E deps \in SUBSET LiveEdges, dk \in [JobIds -> {NULL, "k"}], lane \in {0, 1} :
         db = [EmptyTables EXCEPT
                 !.jobs = [j \in JobIds |->
                             NewRow(IF j = "c" THEN lane ELSE 0, DocPayload, dk[j],
                                    MAX_ATTEMPTS, 0)],
                 !.deps = deps]

NextLive ==
    \/ DoClaimBegin
    \/ DoClaimSelect
    \/ DoClaimRow
    \/ DoClaimReturn
    \/ DoWorkerExecute
    \/ DoWorkerSleep

SpecLive == InitLive /\ [][NextLive]_vars /\ WF_vars(NextLive)

\* C35: with a fairly scheduled worker that claims with no lane filter and
\* reports /done for every job it is given before the lease expires, every
\* job of a finite acyclic job set whose deps all exist eventually reaches
\* done, whatever the batch sizes and the dedupe hits.
C35_EveryJobEventuallyDone ==
    <>(\A j \in JobIds : db.jobs[j].status = "done")

\* C35 witness: the chain c -> b -> a is all done; b, with its artifact
\* present, was finished by a dedupe hit (never claimed), a and c by the
\* worker's /done
C35_Witness ==
    /\ db.deps = {<<"b", "a">>, <<"c", "b">>}
    /\ \A j \in JobIds : db.jobs[j].status = "done"
    /\ db.jobs["b"].dedupe_key = "k" /\ db.jobs["b"].attempts = 0
    /\ db.jobs["a"].dedupe_key = NULL /\ db.jobs["a"].attempts = 1
    /\ db.jobs["c"].dedupe_key = NULL /\ db.jobs["c"].attempts = 1
    /\ db.jobs["c"].lane = 1

(***************************************************************************)
(* A dependency that failed (SpecDeps)                                     *)
(***************************************************************************)
\* job j is queued and has a recorded dep whose status is failed
BlockedByFailure(t, j) ==
    /\ Exists(t, j)
    /\ t.jobs[j].status = "queued"
    /\ \E d \in JobIds : /\ <<j, d>> \in t.deps
                         /\ Exists(t, d)
                         /\ t.jobs[d].status = "failed"

\* C36: a queued job that has a dep in status failed is not added to the
\* list of any claim call and does not change status: it is queued, with a
\* failed dep, in the next state too.
C36_FailedDepBlocksForever ==
    [][ \A j \in JobIds :
          BlockedByFailure(Latest, j) =>
            /\ \A w \in Slots : ~Gains(w, j)
            /\ BlockedByFailure(Latest', j) ]_vars

(***************************************************************************)
(* SpecOwner: one job with max_attempts 2, two connections calling         *)
(* /ready concurrently, each for its own holder, with the sweep's clock    *)
(* read apart from its transaction; /heartbeat, /done and /fail by either  *)
(* holder, leases expiring; the responses are recorded.                    *)
(***************************************************************************)
OwnerCfg == [LeaseCfg EXCEPT !.slots = {"w1", "w2"},
                             !.holders = [w \in Slots |-> IF w = "w1" THEN {"h1"} ELSE {"h2"}],
                             !.holderArgs = {"h1", "h2"},
                             !.lanes = {0},
                             !.laneArgs = {NoLane},
                             !.maxAttempts = {2}]

InitOwner == InitWith(OwnerCfg)

NextOwner ==
    \/ DoEnqueue
    \/ DoSweepRead
    \/ DoSweepRun
    \/ DoClaimSelect
    \/ DoClaimRow
    \/ DoClaimReturn
    \/ DoMarkDone
    \/ DoMarkFailed
    \/ DoHeartbeat
    \/ Tick

SpecOwner == InitOwner /\ [][NextOwner]_vars

\* the store records job j as running under holder h with a lease that
\* ended before the present, and no sweep has handled it yet
Overdue(j, h) ==
    /\ RunningUnder(db, j, h)
    /\ db.jobs[j].lease_until # NullTime
    /\ db.jobs[j].lease_until < time_time

\* C37: for a running job whose lease has ended and which no sweep has
\* handled yet, a heartbeat by its recorded holder is answered ok and sets
\* lease_until to the present + LEASE_MS, after which the job is not stale
\* and a sweep at that time changes nothing; /done and /fail by its
\* recorded holder move it to done resp. failed; and a sweep leaves a
\* running job whose lease has not ended at its time as it is.
C37_ExpiryDoesNotRevoke ==
    [][ \A j \in JobIds :
          /\ \A h \in OwnerCfg.holderArgs :
               Overdue(j, h) =>
                 /\ Heartbeat(j, h) =>
                      /\ reply'.ok
                      /\ db' = [db EXCEPT !.jobs[j].lease_until = time_time + LEASE_MS]
                      /\ j \notin StaleIds(db', time_time)
                      /\ requeue_stale(db', time_time) = db'
                 /\ MarkDone(j, h) => db' = [db EXCEPT !.jobs[j].status = "done"]
                 /\ \A e \in OwnerCfg.errors :
                      MarkFailed(j, e, h) =>
                        db' = [db EXCEPT !.jobs[j].status = "failed", !.jobs[j].error = e]
          /\ \A w \in Slots :
               (calls[w].pc = "sweep" /\ calls'[w].pc = "select"
                  /\ Exists(db, j) /\ ~Expired(db, j, calls[w].now)) =>
                 db'.jobs[j] = db.jobs[j] ]_vars

\* C37 witness: both connections read the clock at tick 0 for their next
\* sweep, so the job's only claim was made at tick 0 and its lease ended at
\* LEASE_MS; at tick 2 the holder's heartbeat was answered ok and the job is
\* running with a lease that ends LEASE_MS after the present
C37_Witness ==
    /\ clock = 2
    /\ \A w \in OwnerCfg.slots : calls[w].pc = "sweep" /\ calls[w].now = 0
    /\ reply.op = "heartbeat"
    /\ reply.ok
    /\ RunningUnder(db, reply.id, reply.holder)
    /\ db.jobs[reply.id].attempts = 1
    /\ db.jobs[reply.id].lease_until = time_time + LEASE_MS

\* C38: in every state, committed or not, a running job has a holder and a
\* lease_until that are not NULL; a step that makes a job running is the
\* claiming update of a call, from queued, and records that call's holder;
\* and while the job stays running its holder does not change.
C38_RunningHasLastClaimer ==
    /\ [](\A j \in JobIds : \A t \in {db, Latest} :
            (Exists(t, j) /\ t.jobs[j].status = "running") =>
               /\ t.jobs[j].holder # NULL
               /\ t.jobs[j].lease_until # NullTime)
    /\ [][ \A j \in JobIds :
             (Exists(Latest', j) /\ Latest'.jobs[j].status = "running") =>
                IF StatusOf(Latest, j) = "running"
                THEN Latest'.jobs[j].holder = Latest.jobs[j].holder
                ELSE /\ StatusOf(Latest, j) = "queued"
                     /\ \E w \in Slots : /\ Gains(w, j)
                                         /\ calls[w].holder \in OwnerCfg.holders[w]
                                         /\ Latest'.jobs[j].holder = calls[w].holder ]_vars

\* C38 witness: the job was claimed by one holder, swept after its lease
\* ended, and claimed again by the other: it runs under h2 on its second
\* attempt, and the answer to that call named it
C38_Witness ==
    /\ reply.op = "ready"
    /\ reply.holder = "h2"
    /\ reply.jobs # <<>>
    /\ RunningUnder(db, reply.jobs[1].id, "h2")
    /\ db.jobs[reply.jobs[1].id].attempts = 2
    /\ db.jobs[reply.jobs[1].id].lease_until = time_time + LEASE_MS

====
